---- MODULE Spec2Model ----
(***************************************************************************)
(* Competitive-match engine of the mnemonics platform:                     *)
(*   - MatchStateMachine        (services/matchStateMachine.ts)            *)
(*   - MatchmakingService queue (services/matchmaking.ts, schema SQL)      *)
(*   - CompetitiveMatch clients (components/CompetitiveMatch.tsx)          *)
(* Each part has its own specification (SpecFSM, SpecQueue, SpecMatch);    *)
(* the variables of the other parts stay at their initial value.           *)
(***************************************************************************)
EXTENDS Integers, Sequences, FiniteSets, Bags, TLC

VARIABLES
    state,          \* MatchStateMachine.state
    stateHistory,   \* MatchStateMachine.stateHistory: <<[state, timestamp]>>
    now,            \* the clock read by new Date() / Date.now()
    lastOp,         \* the last public call on the machine and what it returned
    calls,          \* number of public calls made on the machine so far
    snapshot,       \* the array last returned by getStateHistory()
    profiles,       \* table public.profiles: player -> [rating, games_played, peak_rating]
    queue,          \* table public.matchmaking_queue: a set of rows
    matches,        \* table public.matches as createMatch fills it: a sequence of rows
    matchEntries,   \* history: per match row, whether each of its two players
                    \* had a queue row when the match row was inserted
    claimCount,     \* history: per player, the match rows inserted with that player
                    \* since the player's current queue row was inserted
    lobby,          \* per player, the MatchmakingLobby component and its poll callback
    joinLog,        \* the joinQueue calls made so far: how many, the last caller
                    \* and whether the last call returned an entry
    match,          \* the row of public.matches that the two clients play
    matchHistory,   \* table public.match_history: a sequence of rows
    client,         \* per participant, the CompetitiveMatch component: its React
                    \* state, its timers, its requests in flight and the realtime
                    \* payloads not yet handed to its subscription callback
    countdownSync,  \* one CountdownSync: serverOffset, onGameStartCallback,
                    \* animationFrameId
    raf,            \* the browser's requestAnimationFrame: the next id and the
                    \* frames requested and not yet run or cancelled
    syncLog,        \* history of the CountdownSync: the calls made on it, the
                    \* callbacks and onTick values it delivered
    call            \* a call of a pure function: its name, arguments and result

fsmVars == <<state, stateHistory, lastOp, calls, snapshot>>

queueVars == <<profiles, queue, matches, matchEntries, claimCount, lobby, joinLog>>

matchVars == <<match, matchHistory, client>>

\* what the actions of one part leave alone
syncVars == <<countdownSync, raf, syncLog>>

notFsmVars == <<queueVars, matchVars, syncVars, call>>
notQueueVars == <<fsmVars, matchVars, syncVars, call>>
notMatchVars == <<fsmVars, now, queue, matches, matchEntries, claimCount, lobby, joinLog,
                  syncVars, call>>
notSyncVars == <<fsmVars, queueVars, matchVars, call>>
notCallVars == <<fsmVars, now, queueVars, matchVars, syncVars>>

vars == <<state, stateHistory, now, lastOp, calls, snapshot,
          profiles, queue, matches, matchEntries, claimCount, lobby, joinLog,
          match, matchHistory, client, countdownSync, raf, syncLog, call>>

\* ------------------------------------------------------------------ bounds
MaxCalls == 4
MaxClock == 2
\* matchmaking: the clock advances TickSeconds at a time, MaxTicks times;
\* Find Match is pressed at most MaxJoins times in all
TickSeconds == 400
MaxTicks == 1
MaxJoins == 2
\* match screen: scores are 0..MaxScore; per client, Submit is pressed at most
\* MaxSubmits times, at most MaxCountdowns countdown loops are started and at
\* most MaxTimerFires intervals reach zero
MaxScore == 1
MaxCountdowns == 1
MaxSubmits == 1
MaxTimerFires == 2
\* CountdownSync: times are in milliseconds; the local clock advances StepMs
\* at a time, MaxSteps times; the server clock differs from the local one by
\* at most SkewMs; handleGameStart is called at most MaxGameStarts times
StepMs == 2000
MaxSteps == 3
SkewMs == 300
MaxGameStarts == 2

\* scoring: a row has at most MaxCols cells, an actual grid at most
\* MaxGridRows rows in all; raw scores range over 0..MaxRawScore
MaxCols == 2
MaxGridRows == 2
MaxRawScore == 3234

\* rated matches completed one after the other
MaxCompletions == 2

\* wait times given to calculateSearchRange, in seconds
MaxWait == 300

\* findMatch is given queues of up to MaxOpponents other players, of whom up
\* to MaxVaried differ from the ordinary opponent
MaxOpponents == 11

\* grids of one-cell rows have MaxIndexRows rows at most in all
MaxIndexRows == 3
MaxVaried == 2

\* ------------------------------------------------------- MatchStateMachine
MatchState ==
    {"CREATED", "WAITING_FOR_PLAYERS", "COUNTDOWN", "MEMORIZATION",
     "RECALL", "COMPLETED", "CANCELLED", "PAUSED"}

NoState == "none"

VALID_TRANSITIONS_ResumeCompleted(s) ==
    CASE s = "CREATED"             -> {"WAITING_FOR_PLAYERS", "CANCELLED"}
      [] s = "WAITING_FOR_PLAYERS" -> {"COUNTDOWN", "CANCELLED"}
      [] s = "COUNTDOWN"           -> {"MEMORIZATION", "PAUSED", "CANCELLED"}
      [] s = "MEMORIZATION"        -> {"RECALL", "PAUSED", "CANCELLED"}
      [] s = "RECALL"              -> {"COMPLETED", "PAUSED", "CANCELLED"}
      [] s = "PAUSED"              -> {"COUNTDOWN", "MEMORIZATION", "RECALL", "CANCELLED"}
      [] s = "COMPLETED"           -> {"RECALL"}
      [] s = "CANCELLED"           -> {}

VALID_TRANSITIONS(s) ==
    CASE s = "CREATED"             -> {"WAITING_FOR_PLAYERS", "CANCELLED"}
      [] s = "WAITING_FOR_PLAYERS" -> {"COUNTDOWN", "CANCELLED"}
      [] s = "COUNTDOWN"           -> {"MEMORIZATION", "PAUSED", "CANCELLED"}
      [] s = "MEMORIZATION"        -> {"RECALL", "PAUSED", "CANCELLED"}
      [] s = "RECALL"              -> {"COMPLETED", "PAUSED", "CANCELLED"}
      [] s = "PAUSED"              -> {"COUNTDOWN", "MEMORIZATION", "RECALL", "CANCELLED"}
      [] s = "COMPLETED"           -> {}
      [] s = "CANCELLED"           -> {}

DisconnectionPolicy(g, a, r) ==
    [gracePeriodMs |-> g, action |-> a, allowReconnect |-> r]

DISCONNECTION_POLICIES(s) ==
    CASE s = "CREATED"             -> DisconnectionPolicy(60000, "WAIT", TRUE)
      [] s = "WAITING_FOR_PLAYERS" -> DisconnectionPolicy(60000, "WAIT", TRUE)
      [] s = "COUNTDOWN"           -> DisconnectionPolicy(10000, "PAUSE", TRUE)
      [] s = "MEMORIZATION"        -> DisconnectionPolicy(15000, "PAUSE", TRUE)
      [] s = "RECALL"              -> DisconnectionPolicy(10000, "FORFEIT", TRUE)
      [] s = "PAUSED"              -> DisconnectionPolicy(60000, "WAIT", TRUE)
      [] s = "COMPLETED"           -> DisconnectionPolicy(0, "NONE", FALSE)
      [] s = "CANCELLED"           -> DisconnectionPolicy(0, "NONE", FALSE)

NoPolicy == DisconnectionPolicy(0 - 1, "none", FALSE)

HistoryEntry(s, t) == [state |-> s, timestamp |-> t]

\* constructor(initialState): the state and a one-entry log
constructor(initialState, t) ==
    [state |-> initialState, stateHistory |-> <<HistoryEntry(initialState, t)>>]

\* canTransition() that lets a match be cancelled from any state
canTransition_CancelAnywhere(s, newState) ==
    newState \in VALID_TRANSITIONS(s) \/ newState = "CANCELLED"

canTransition(s, newState) == newState \in VALID_TRANSITIONS(s)

\* transition() with the log pushed before the guard is evaluated
transition_LogBeforeGuard(s, h, newState, t) ==
    IF ~canTransition(s, newState)
    THEN [ok |-> FALSE, state |-> s,
          stateHistory |-> Append(h, HistoryEntry(newState, t))]
    ELSE [ok |-> TRUE, state |-> newState,
          stateHistory |-> Append(h, HistoryEntry(newState, t))]

\* transition() that replaces the last log entry instead of pushing
transition_OverwriteLast(s, h, newState, t) ==
    IF ~canTransition(s, newState)
    THEN [ok |-> FALSE, state |-> s, stateHistory |-> h]
    ELSE [ok |-> TRUE, state |-> newState,
          stateHistory |-> Append(SubSeq(h, 1, Len(h) - 1), HistoryEntry(newState, t))]

\* transition(newState): the returned verdict and the fields after the call
transition(s, h, newState, t) ==
    IF ~canTransition(s, newState)
    THEN [ok |-> FALSE, state |-> s, stateHistory |-> h]
    ELSE [ok |-> TRUE, state |-> newState,
          stateHistory |-> Append(h, HistoryEntry(newState, t))]

\* getDisconnectionPolicy() that ignores its argument
getDisconnectionPolicy_CurrentOnly(s, arg) == DISCONNECTION_POLICIES(s)

\* getDisconnectionPolicy(state?): state || this.state
getDisconnectionPolicy(s, arg) ==
    DISCONNECTION_POLICIES(IF arg # NoState THEN arg ELSE s)

isTerminalState(s) == s = "COMPLETED" \/ s = "CANCELLED"

\* reset() that clears the log: this.stateHistory = []
reset_EmptyHistory(t) ==
    [state |-> "CREATED", stateHistory |-> <<>>]

reset(t) ==
    [state |-> "CREATED", stateHistory |-> <<HistoryEntry("CREATED", t)>>]

OpRecord(op, arg, ok, policy) ==
    [op |-> op, arg |-> arg, ok |-> ok, policy |-> policy]

FsmInit ==
    /\ now = 0
    /\ \E initialState \in MatchState :
         /\ state = constructor(initialState, 0).state
         /\ stateHistory = constructor(initialState, 0).stateHistory
    /\ lastOp = OpRecord("constructor", NoState, TRUE, NoPolicy)
    /\ calls = 0
    /\ snapshot = <<>>

Tick ==
    /\ now < MaxClock
    /\ now' = now + 1
    /\ UNCHANGED <<state, stateHistory, lastOp, calls, snapshot>>
    /\ UNCHANGED notFsmVars

Transition ==
    /\ calls < MaxCalls
    /\ \E newState \in MatchState :
         LET r == transition(state, stateHistory, newState, now) IN
         /\ state' = r.state
         /\ stateHistory' = r.stateHistory
         /\ lastOp' = OpRecord("transition", newState, r.ok, NoPolicy)
    /\ calls' = calls + 1
    /\ UNCHANGED <<now, snapshot>>
    /\ UNCHANGED notFsmVars

CanTransition ==
    /\ calls < MaxCalls
    /\ \E newState \in MatchState :
         lastOp' = OpRecord("canTransition", newState,
                            canTransition(state, newState), NoPolicy)
    /\ calls' = calls + 1
    /\ UNCHANGED <<state, stateHistory, now, snapshot>>
    /\ UNCHANGED notFsmVars

GetDisconnectionPolicy ==
    /\ calls < MaxCalls
    /\ \E arg \in MatchState \cup {NoState} :
         lastOp' = OpRecord("getDisconnectionPolicy", arg, TRUE,
                            getDisconnectionPolicy(state, arg))
    /\ calls' = calls + 1
    /\ UNCHANGED <<state, stateHistory, now, snapshot>>
    /\ UNCHANGED notFsmVars

GetStateHistory ==
    /\ calls < MaxCalls
    /\ snapshot' = stateHistory
    /\ lastOp' = OpRecord("getStateHistory", NoState, TRUE, NoPolicy)
    /\ calls' = calls + 1
    /\ UNCHANGED <<state, stateHistory, now>>
    /\ UNCHANGED notFsmVars

IsTerminalState ==
    /\ calls < MaxCalls
    /\ lastOp' = OpRecord("isTerminalState", NoState, isTerminalState(state), NoPolicy)
    /\ calls' = calls + 1
    /\ UNCHANGED <<state, stateHistory, now, snapshot>>
    /\ UNCHANGED notFsmVars

Reset ==
    /\ calls < MaxCalls
    /\ state' = reset(now).state
    /\ stateHistory' = reset(now).stateHistory
    /\ lastOp' = OpRecord("reset", NoState, TRUE, NoPolicy)
    /\ calls' = calls + 1
    /\ UNCHANGED <<now, snapshot>>
    /\ UNCHANGED notFsmVars


\* ------------------------------------------------------ MatchmakingService
\* Time in this part is in whole seconds (the code divides milliseconds by 1000).
Players == {"A", "B", "C"}
EventTypes == {"speed", "hour"}
NoPlayer == "none"

Min(a, b) == IF a <= b THEN a ELSE b
Max(a, b) == IF a >= b THEN a ELSE b
Abs(x) == IF x < 0 THEN 0 - x ELSE x

\* DEFAULT_CONFIG
baseRange == 100
expansionRate == 10
maxRange == 500
timeInterval == 5
\* .limit(10) of the opponents query
QueryLimit == 10
\* cleanStaleEntries: 5 * 60 seconds
StaleSeconds == 300
\* profiles.rating / peak_rating DEFAULT 1500
DefaultRating == 1500

\* a row of matchmaking_queue (its id column, a random uuid, is not modelled:
\* user_id is unique in the table)
QueueEntry(userId, rating, eventType, joinedAt) ==
    [user_id |-> userId, rating |-> rating,
     event_type |-> eventType, joined_at |-> joinedAt]

NoEntry == QueueEntry(NoPlayer, 0, "none", 0)

Profile(rating, games, peak) ==
    [rating |-> rating, games_played |-> games, peak_rating |-> peak]

\* the profiles the model starts from: one at the default rating, one close
\* to it and one 300 points away
InitialProfiles ==
    [p \in Players |->
        CASE p = "A" -> Profile(DefaultRating, 0, DefaultRating)
          [] p = "B" -> Profile(DefaultRating + 40, 0, DefaultRating + 40)
          [] OTHER   -> Profile(DefaultRating + 300, 0, DefaultRating + 300)]

\* policy "Users manage own queue entry": FOR ALL USING (auth.uid() = user_id);
\* the only other policy of the table is FOR SELECT
UsersManageOwnQueueEntry(caller, row) == caller = row.user_id

\* INSERT INTO matchmaking_queue without CONSTRAINT unique_user_in_queue
queueInsert_NoUniqueConstraint(q, userId, rating, eventType, t) ==
    [error |-> FALSE,
     rows  |-> q \cup {QueueEntry(userId, rating, eventType, t)},
     data  |-> QueueEntry(userId, rating, eventType, t)]

\* INSERT INTO matchmaking_queue ... joined_at DEFAULT NOW(),
\* CONSTRAINT unique_user_in_queue UNIQUE(user_id)
queueInsert(q, userId, rating, eventType, t) ==
    IF \E r \in q : r.user_id = userId
    THEN [error |-> TRUE, rows |-> q, data |-> NoEntry]
    ELSE [error |-> FALSE,
          rows  |-> q \cup {QueueEntry(userId, rating, eventType, t)},
          data  |-> QueueEntry(userId, rating, eventType, t)]

\* leaveQueue(userId) issued by caller: DELETE ... WHERE user_id = userId,
\* on the rows the caller's policy lets it delete
leaveQueue(caller, q, userId) ==
    {r \in q : ~(r.user_id = userId /\ UsersManageOwnQueueEntry(caller, r))}

\* calculateSearchRange without Math.min(expandedRange, maxRange)
calculateSearchRange_NoCap(waitTimeSeconds) ==
    baseRange + (waitTimeSeconds \div timeInterval) * expansionRate

calculateSearchRange(waitTimeSeconds) ==
    LET intervals == waitTimeSeconds \div timeInterval
        expandedRange == baseRange + intervals * expansionRate
    IN  Min(expandedRange, maxRange)

\* the opponents query without the rating bounds
opponentRows_AnyRating(q, userId, rating, eventType, currentRange) ==
    {r \in q : r.event_type = eventType /\ r.user_id # userId}

\* the opponents query of findMatch: its WHERE clause
opponentRows(q, userId, rating, eventType, currentRange) ==
    {r \in q : /\ r.event_type = eventType
               /\ r.user_id # userId
               /\ r.rating >= rating - currentRange
               /\ r.rating <= rating + currentRange}

\* the sequences of at most n of the rows, earliest joined_at first; rows with
\* equal joined_at come in any order
RECURSIVE earliestFirst(_, _)
earliestFirst(rows, n) ==
    IF n = 0 \/ rows = {}
    THEN {<<>>}
    ELSE UNION {{<<r>> \o rest : rest \in earliestFirst(rows \ {r}, n - 1)} :
                  r \in {x \in rows : \A y \in rows : x.joined_at <= y.joined_at}}

\* .order('joined_at', ascending).limit(10): every order the database may
\* return, cut to the limit
orderedLimited(rows) == earliestFirst(rows, QueryLimit)

opponentScore(opponent, myRating, t) ==
    Abs(opponent.rating - myRating) - (t - opponent.joined_at) * 2

\* selectBestOpponent returning the first candidate
selectBestOpponent_First(opponents, myRating, t) == opponents[1]

\* selectBestOpponent: stable sort by score ascending, first element
selectBestOpponent(opponents, myRating, t) ==
    LET best == CHOOSE i \in 1..Len(opponents) :
                  /\ \A j \in 1..Len(opponents) :
                       opponentScore(opponents[i], myRating, t)
                         <= opponentScore(opponents[j], myRating, t)
                  /\ \A j \in 1..(i - 1) :
                       opponentScore(opponents[j], myRating, t)
                         > opponentScore(opponents[i], myRating, t)
    IN  opponents[best]

\* findMatch(userId, rating, eventType) at time t on the queue q: the entries
\* it can return, NoEntry standing for null. The own entry is read with
\* .single() (no row: null); the opponents come in any order the database
\* may give them.
findMatch(q, userId, rating, eventType, t) ==
    LET own == {r \in q : r.user_id = userId}
    IN  IF Cardinality(own) # 1
        THEN {NoEntry}
        ELSE LET queueEntry == CHOOSE r \in own : TRUE
                 currentRange == calculateSearchRange(t - queueEntry.joined_at)
                 rows == opponentRows(q, userId, rating, eventType, currentRange)
             IN  {IF Len(opponents) = 0
                  THEN NoEntry
                  ELSE selectBestOpponent(opponents, rating, t) :
                      opponents \in orderedLimited(rows)}

MatchRow(id, p1, p2, eventType, r1, r2) ==
    [id |-> id, player1_id |-> p1, player2_id |-> p2,
     status |-> "waiting_for_players", event_type |-> eventType,
     player1_rating_before |-> r1, player2_rating_before |-> r2]

\* INSERT INTO matches: CONSTRAINT different_players CHECK (player1_id != player2_id)
matchInsert(ms, p1, p2, eventType, r1, r2) ==
    IF p1 = p2
    THEN [error |-> TRUE, rows |-> ms, id |-> 0]
    ELSE [error |-> FALSE,
          rows  |-> Append(ms, MatchRow(Len(ms) + 1, p1, p2, eventType, r1, r2)),
          id    |-> Len(ms) + 1]

HasEntry(q, userId) == \E r \in q : r.user_id = userId

\* MatchmakingLobby of one player: its React state and refs, and the position
\* of the poll callback in flight (pc) with the callback's locals.
\*   inQueue      useState inQueue
\*   polling      matchmakingInterval.current holds a running interval
\*   queuedEvent  the selectedEvent captured by the running interval's closure
\*   pc           idle | found | inserted | matched
\*   pollEvent    the eventType of the callback in flight
\*   found        user_id of the entry findMatch returned to the callback
\*   newMatchId   id of the match row the callback inserted
\*   matchId      the id passed to onMatchFound (0: not called)
\*   left         history: the player's leaveQueue (Cancel Search) has
\*                completed and the player has not joined again since
LobbyInit ==
    [inQueue |-> FALSE, polling |-> FALSE, queuedEvent |-> "none",
     pc |-> "idle", pollEvent |-> "none", found |-> NoPlayer,
     newMatchId |-> 0, matchId |-> 0, left |-> FALSE]

QueueInit ==
    /\ profiles = InitialProfiles
    /\ queue = {}
    /\ matches = <<>>
    /\ matchEntries = <<>>
    /\ claimCount = [p \in Players |-> 0]
    /\ lobby = [p \in Players |-> LobbyInit]
    /\ joinLog = [n |-> 0, user |-> NoPlayer, joined |-> FALSE]

\* time passes
QueueTick ==
    /\ now + TickSeconds <= MaxTicks * TickSeconds
    /\ now' = now + TickSeconds
    /\ UNCHANGED queueVars
    /\ UNCHANGED notQueueVars

\* MatchmakingLobby.joinQueue (Find Match): insert, then start the intervals
JoinQueue(p) ==
    /\ ~lobby[p].inQueue
    /\ lobby[p].matchId = 0
    /\ joinLog.n < MaxJoins
    /\ \E ev \in EventTypes :
         LET ins == queueInsert(queue, p, profiles[p].rating, ev, now) IN
         /\ queue' = ins.rows
         /\ claimCount' = IF ins.error THEN claimCount
                          ELSE [claimCount EXCEPT ![p] = 0]
         /\ joinLog' = [n |-> joinLog.n + 1, user |-> p, joined |-> ~ins.error]
         /\ lobby' = [lobby EXCEPT ![p] =
              IF ins.error
              THEN @
              ELSE [@ EXCEPT !.queuedEvent = ev,
                             !.inQueue = TRUE, !.polling = TRUE,
                             !.left = FALSE]]
    /\ UNCHANGED <<now, profiles, matches, matchEntries>>
    /\ UNCHANGED notQueueVars

\* MatchmakingLobby.leaveQueue (Cancel Search): delete, then clear the intervals;
\* a poll callback already in flight goes on
LeaveQueue(p) ==
    /\ lobby[p].inQueue
    /\ queue' = leaveQueue(p, queue, p)
    /\ lobby' = [lobby EXCEPT ![p].inQueue = FALSE, ![p].polling = FALSE,
                              ![p].queuedEvent = "none", ![p].left = TRUE]
    /\ UNCHANGED <<now, profiles, matches, matchEntries, claimCount, joinLog>>
    /\ UNCHANGED notQueueVars

\* the lobby is unmounted and mounted again (useEffect cleanup clears the
\* intervals; nothing leaves the queue): its state starts over
Remount(p) ==
    /\ lobby[p].matchId = 0
    /\ lobby[p].inQueue \/ lobby[p].polling
    /\ lobby' = [lobby EXCEPT ![p].inQueue = FALSE, ![p].polling = FALSE,
                              ![p].queuedEvent = "none"]
    /\ UNCHANGED <<now, profiles, queue, matches, matchEntries, claimCount, joinLog>>
    /\ UNCHANGED notQueueVars

\* The poll callback in flight runs in three steps, one per point where another
\* client's request can change what the callback goes on to do: findMatch (its
\* two reads), createMatch up to the insert (the profiles read and the insert),
\* and the two leaveQueue deletes with the callback's return.

\* the polling interval fires: findMatch reads the caller's own entry
\* (.single(): no row -> null), runs the opponents query and selectBestOpponent
\* (no candidate -> null); on null the callback ends
PollFindMatch(p) ==
    /\ lobby[p].polling
    /\ lobby[p].pc = "idle"
    /\ \E found \in findMatch(queue, p, profiles[p].rating, lobby[p].queuedEvent, now) :
         lobby' = [lobby EXCEPT ![p] =
            IF found = NoEntry
            THEN @
            ELSE [@ EXCEPT !.pc = "found",
                           !.pollEvent = lobby[p].queuedEvent,
                           !.found = found.user_id]]
    /\ UNCHANGED <<now, profiles, queue, matches, matchEntries, claimCount, joinLog>>
    /\ UNCHANGED notQueueVars

\* createMatch: the profiles query (both rows exist: user_id references
\* profiles) and the insert into matches; an error returns null
CreateMatchInsert(p) ==
    /\ lobby[p].pc = "found"
    /\ LET opp == lobby[p].found
           ins == matchInsert(matches, p, opp, lobby[p].pollEvent,
                              profiles[p].rating, profiles[opp].rating)
       IN  /\ matches' = ins.rows
           /\ matchEntries' =
                IF ins.error THEN matchEntries
                ELSE Append(matchEntries,
                            <<HasEntry(queue, p), HasEntry(queue, opp)>>)
           /\ claimCount' =
                IF ins.error THEN claimCount
                ELSE [u \in Players |->
                        IF u \in {p, opp} THEN claimCount[u] + 1 ELSE claimCount[u]]
           /\ lobby' = [lobby EXCEPT ![p] =
                IF ins.error
                THEN [@ EXCEPT !.pc = "idle", !.pollEvent = "none",
                               !.found = NoPlayer]
                ELSE [@ EXCEPT !.pc = "inserted", !.newMatchId = ins.id]]
    /\ UNCHANGED <<now, profiles, queue, joinLog>>
    /\ UNCHANGED notQueueVars

\* createMatch: Promise.all of leaveQueue(player1Id) and leaveQueue(player2Id);
\* then the callback clears the intervals and calls onMatchFound(matchId)
CreateMatchLeave(p) ==
    /\ lobby[p].pc = "inserted"
    /\ queue' = leaveQueue(p, leaveQueue(p, queue, p), lobby[p].found)
    /\ lobby' = [lobby EXCEPT ![p] =
         [@ EXCEPT !.pc = "matched", !.pollEvent = "none", !.found = NoPlayer,
                   !.newMatchId = 0, !.polling = FALSE, !.queuedEvent = "none",
                   !.matchId = lobby[p].newMatchId]]
    /\ UNCHANGED <<now, profiles, matches, matchEntries, claimCount, joinLog>>
    /\ UNCHANGED notQueueVars

\* MatchmakingService.cleanStaleEntries called by a signed-in player
CleanStaleEntries(p) ==
    /\ queue' = {r \in queue :
                   ~(r.joined_at < now - StaleSeconds /\ UsersManageOwnQueueEntry(p, r))}
    /\ queue' # queue
    /\ UNCHANGED <<now, profiles, matches, matchEntries, claimCount, lobby, joinLog>>
    /\ UNCHANGED notQueueVars

\* SQL function clean_stale_queue_entries() (SECURITY DEFINER: every row)
clean_stale_queue_entries ==
    /\ queue' = {r \in queue : ~(r.joined_at < now - StaleSeconds)}
    /\ queue' # queue
    /\ UNCHANGED <<now, profiles, matches, matchEntries, claimCount, lobby, joinLog>>
    /\ UNCHANGED notQueueVars

\* ------------------------------------------------------------------- elo.ts
\* Ratings are integers. An actual score (1, 0.5 or 0) is carried doubled
\* (2, 1 or 0) so that the arithmetic stays in the integers.

\* Math.round(kFactor * (1 - calculateExpectedScore(ratingA, ratingB))) is a
\* step function of d = ratingB - ratingA: it climbs from 0 (d far below 0)
\* to kFactor (d far above 0) one unit at a time. ExpectedScoreSteps(kFactor)
\* lists the values of d at which it climbs, obtained by evaluating
\* 1 / (1 + Math.pow(10, d / 400)) and Math.round in IEEE double arithmetic
\* for every integer d; no product comes within 0.0001 of a rounding tie, and
\* for the actual scores 0.5 and 0 the steps are at the same values of d.
ExpectedScoreSteps(kFactor) ==
    CASE kFactor = 10 ->
           <<-511, -301, -190, -107, -34, 35, 108, 191, 302, 512>>
      [] kFactor = 20 ->
           <<-636, -436, -338, -269, -214, -168, -126, -88, -52, -17,
             18, 53, 89, 127, 169, 215, 270, 339, 437, 637>>
      [] kFactor = 32 ->
           <<-719, -523, -428, -364, -314, -273, -237, -205, -176, -149,
             -124, -100, -77, -54, -32, -10, 11, 33, 55, 78, 101, 125,
             150, 177, 206, 238, 274, 315, 365, 429, 524, 720>>
      [] kFactor = 40 ->
           <<-759, -563, -470, -407, -358, -318, -284, -254, -227, -202,
             -179, -157, -136, -117, -98, -79, -61, -43, -26, -8, 9, 27,
             44, 62, 80, 99, 118, 137, 158, 180, 203, 228, 255, 285, 319,
             359, 408, 471, 564, 760>>

\* Math.round(kFactor * (actualScore - calculateExpectedScore(ratingA, ratingB)))
ratingChange(ratingA, ratingB, twiceScore, kFactor) ==
    LET steps == ExpectedScoreSteps(kFactor)
    IN  Cardinality({i \in DOMAIN steps : steps[i] <= ratingB - ratingA})
          - (kFactor * (2 - twiceScore)) \div 2

MasterPeak == 2400
NewPlayerGames == 30
MinimumRating == 100

\* getDynamicKFactor testing the games played before the peak rating
getDynamicKFactor_GamesFirst(rating, gamesPlayed, peakRating) ==
    IF gamesPlayed < NewPlayerGames THEN 40
    ELSE IF peakRating # 0 /\ peakRating >= MasterPeak THEN 10
    ELSE 20

\* peakRating 0 stands for a missing (falsy) peakRating
getDynamicKFactor(rating, gamesPlayed, peakRating) ==
    IF peakRating # 0 /\ peakRating >= MasterPeak THEN 10
    ELSE IF gamesPlayed < NewPlayerGames THEN 40
    ELSE 20

\* the PlayerRating records given to getDynamicKFactor and updatePlayerRatings:
\* ratings at and above the floor, the default and a master's; games played
\* around the new-player limit; the peak missing (0) or around the master peak
PlayerRatingInputs ==
    {[rating |-> rating, gamesPlayed |-> gamesPlayed, peakRating |-> peakRating] :
        rating \in {MinimumRating, MinimumRating + 15, DefaultRating, MasterPeak + 100},
        gamesPlayed \in {0, NewPlayerGames - 1, NewPlayerGames},
        peakRating \in {0, MasterPeak - 1, MasterPeak}}

MatchResults == {"player1", "player2", "draw"}

\* calculateNewRating without the Math.max(100, ...)
calculateNewRating_NoFloor(currentRating, opponentRating, twiceScore, kFactor) ==
    LET change == ratingChange(currentRating, opponentRating, twiceScore, kFactor)
    IN  [newRating |-> currentRating + change, ratingChange |-> change,
         kFactor |-> kFactor]

\* calculateNewRating with the floor at 0: Math.max(0, newRating)
calculateNewRating_FloorAtZero(currentRating, opponentRating, twiceScore, kFactor) ==
    LET change == ratingChange(currentRating, opponentRating, twiceScore, kFactor)
    IN  [newRating |-> Max(0, currentRating + change), ratingChange |-> change,
         kFactor |-> kFactor]

calculateNewRating(currentRating, opponentRating, twiceScore, kFactor) ==
    LET change == ratingChange(currentRating, opponentRating, twiceScore, kFactor)
        newRating == currentRating + change
    IN  [newRating |-> Max(MinimumRating, newRating), ratingChange |-> change,
         kFactor |-> kFactor]

PlayerRating(profile) ==
    [rating |-> profile.rating, gamesPlayed |-> profile.games_played,
     peakRating |-> profile.peak_rating]

\* updatePlayerRatings computing the second update against the first player's
\* new rating
updatePlayerRatings_Sequential(player1, player2, result) ==
    LET player1Score == IF result = "player1" THEN 2 ELSE IF result = "draw" THEN 1 ELSE 0
        player2Score == 2 - player1Score
        k1 == getDynamicKFactor(player1.rating, player1.gamesPlayed, player1.peakRating)
        k2 == getDynamicKFactor(player2.rating, player2.gamesPlayed, player2.peakRating)
        player1Update == calculateNewRating(player1.rating, player2.rating, player1Score, k1)
    IN  [player1Update |-> player1Update,
         player2Update |-> calculateNewRating(player2.rating, player1Update.newRating,
                                              player2Score, k2)]

updatePlayerRatings(player1, player2, result) ==
    LET player1Score == IF result = "player1" THEN 2 ELSE IF result = "draw" THEN 1 ELSE 0
        player2Score == 2 - player1Score
        k1 == getDynamicKFactor(player1.rating, player1.gamesPlayed, player1.peakRating)
        k2 == getDynamicKFactor(player2.rating, player2.gamesPlayed, player2.peakRating)
    IN  [player1Update |-> calculateNewRating(player1.rating, player2.rating, player1Score, k1),
         player2Update |-> calculateNewRating(player2.rating, player1.rating, player2Score, k2)]

determineMatchResult(score1, score2) ==
    IF score1 > score2 THEN "player1"
    ELSE IF score2 > score1 THEN "player2"
    ELSE "draw"

\* ------------------------------------------- the match row and its trigger
\* type match_status
MatchStatus ==
    {"created", "waiting_for_players", "countdown", "memorization",
     "recall", "completed", "cancelled", "paused"}

\* SQL NULL in an integer column
NULL == -1000000
NoResult == "null"
NoGrid == "none"

\* game_data: which client generated the stored grid (NoGrid for '{}') and
\* whether gameStartTime is present
GameData(grid, start) == [numbersGrid |-> grid, gameStartTime |-> start]

\* the two clients of the match; player1 is "A" and player2 is "B"
MatchPlayers == {"A", "B"}

\* winner_id as completeMatch writes it (null for a draw)
winnerId(result, player1Id, player2Id) ==
    IF result = "player1" THEN player1Id
    ELSE IF result = "player2" THEN player2Id
    ELSE NoPlayer

\* the row createMatch inserted for A against B, with the columns the match
\* screen reads and writes (a null winner_id is NoPlayer)
InitialMatch ==
    [player1_id |-> "A", player2_id |-> "B",
     status |-> MatchRow(1, "A", "B", "speed", 0, 0).status,
     player1_score |-> NULL, player2_score |-> NULL,
     player1_rating_before |-> InitialProfiles["A"].rating,
     player2_rating_before |-> InitialProfiles["B"].rating,
     player1_rating_after |-> NULL, player2_rating_after |-> NULL,
     player1_rating_change |-> NULL, player2_rating_change |-> NULL,
     result |-> NoResult,
     winner_id |-> NoPlayer,
     game_data |-> GameData(NoGrid, FALSE)]

HistoryRow(userId, score, before, after, change, result, opponentId) ==
    [user_id |-> userId, score |-> score, rating_before |-> before,
     rating_after |-> after, rating_change |-> change, result |-> result,
     opponent_id |-> opponentId]

\* the trigger function with peak_rating set to the new rating, without GREATEST
update_profile_stats_after_match_NoGreatest(old, new, profs, hist) ==
    IF new.status = "completed" /\ old.status # "completed"
    THEN [profiles |->
            [profs EXCEPT
               ![new.player1_id] =
                   [@ EXCEPT !.games_played = @ + 1,
                             !.rating = new.player1_rating_after,
                             !.peak_rating = new.player1_rating_after],
               ![new.player2_id] =
                   [@ EXCEPT !.games_played = @ + 1,
                             !.rating = new.player2_rating_after,
                             !.peak_rating = new.player2_rating_after]],
          history |->
            hist \o
            <<HistoryRow(new.player1_id, new.player1_score,
                         new.player1_rating_before, new.player1_rating_after,
                         new.player1_rating_change,
                         IF new.result = "player1" THEN "win"
                         ELSE IF new.result = "player2" THEN "loss" ELSE "draw",
                         new.player2_id),
              HistoryRow(new.player2_id, new.player2_score,
                         new.player2_rating_before, new.player2_rating_after,
                         new.player2_rating_change,
                         IF new.result = "player2" THEN "win"
                         ELSE IF new.result = "player1" THEN "loss" ELSE "draw",
                         new.player1_id)>>]
    ELSE [profiles |-> profs, history |-> hist]

\* trigger on_match_completed, AFTER UPDATE ON matches FOR EACH ROW:
\* function update_profile_stats_after_match()
update_profile_stats_after_match(old, new, profs, hist) ==
    IF new.status = "completed" /\ old.status # "completed"
    THEN [profiles |->
            [profs EXCEPT
               ![new.player1_id] =
                   [@ EXCEPT !.games_played = @ + 1,
                             !.rating = new.player1_rating_after,
                             !.peak_rating = Max(@, new.player1_rating_after)],
               ![new.player2_id] =
                   [@ EXCEPT !.games_played = @ + 1,
                             !.rating = new.player2_rating_after,
                             !.peak_rating = Max(@, new.player2_rating_after)]],
          history |->
            hist \o
            <<HistoryRow(new.player1_id, new.player1_score,
                         new.player1_rating_before, new.player1_rating_after,
                         new.player1_rating_change,
                         IF new.result = "player1" THEN "win"
                         ELSE IF new.result = "player2" THEN "loss" ELSE "draw",
                         new.player2_id),
              HistoryRow(new.player2_id, new.player2_score,
                         new.player2_rating_before, new.player2_rating_after,
                         new.player2_rating_change,
                         IF new.result = "player2" THEN "win"
                         ELSE IF new.result = "player1" THEN "loss" ELSE "draw",
                         new.player1_id)>>]
    ELSE [profiles |-> profs, history |-> hist]

\* policy "Players update own matches": FOR UPDATE USING (auth.uid() IN
\* (player1_id, player2_id))
PlayersUpdateOwnMatches(caller, row) == caller \in {row.player1_id, row.player2_id}

\* ---------------------------------------------------- CompetitiveMatch.tsx
\* One CompetitiveMatch component per participant. Its handlers are the
\* operations. Each `await` of a handler is a request in flight: the step that
\* executes the request at the database also runs the handler on to its next
\* await. A handler can be called whenever the component holds a match row;
\* which screen the component renders at that moment is not modelled, nor is
\* the state that only selects or decorates the screen (matchState,
\* userReady, countdown, timeRemaining, currentPage).
\* Timers carry no durations: a running countdown or interval may expire at
\* any later step.
\*
\* The component of participant c:
\*   effectMatch   `match` was non-null in the render whose effect subscribed;
\*                 the subscription callback, and the timer callbacks it leads
\*                 to, read `match` from that render
\*   loading       the loadMatch() of the effect has not returned yet
\*   loaded        useState match is non-null
\*   numbersGrid   useState numbersGrid: NoGrid for [], else the client that
\*                 generated the grid
\*   countdowns    countdown loops started by handleGameStart so far
\*   intervals     the running setInterval timers, oldest first
\*   refLive       timerRef.current is a running interval (then it is the
\*                 youngest one)
\*   requests      bag of the requests in flight
\*   payloads      realtime payloads with status countdown and a gameStartTime
\*                 not yet given to the subscription callback
\*   submits       times Submit was pressed
\*   timerFires    times an interval reached zero
Request(op, grid, score, result, updates) ==
    [op |-> op, grid |-> grid, score |-> score, result |-> result, updates |-> updates]

NoUpdates ==
    [player1Update |-> [newRating |-> NULL, ratingChange |-> NULL, kFactor |-> NULL],
     player2Update |-> [newRating |-> NULL, ratingChange |-> NULL, kFactor |-> NULL]]

StatusRequest(status, grid) == Request(status, grid, NULL, NoResult, NoUpdates)
ScoreRequest(score) == Request("score", NoGrid, score, NoResult, NoUpdates)
SelectRequest == Request("select", NoGrid, NULL, NoResult, NoUpdates)
ProfilesRequest(result) == Request("profiles", NoGrid, NULL, result, NoUpdates)
CompleteRequest(result, updates) == Request("complete", NoGrid, NULL, result, updates)

Issue(requests, r) == requests (+) SetToBag({r})
Answer(requests, r) == requests (-) SetToBag({r})

\* scoreNumberEvent(...).totalScore
Scores == 0..MaxScore

ClientInit(effectMatch) ==
    [effectMatch |-> effectMatch, loading |-> TRUE, loaded |-> effectMatch,
     numbersGrid |-> NoGrid, countdowns |-> 0, intervals |-> <<>>,
     refLive |-> FALSE, requests |-> EmptyBag, payloads |-> 0,
     submits |-> 0, timerFires |-> 0]

\* every subscribed client is sent the new row; the callback goes on to
\* handleCountdownStart for a row with status countdown and a gameStartTime
Broadcast(cl, new) ==
    [p \in MatchPlayers |->
        [cl[p] EXCEPT !.payloads =
            IF new.status = "countdown" /\ new.game_data.gameStartTime
            THEN @ + 1 ELSE @]]

\* UPDATE matches SET ... WHERE id = matchId, issued by c: the row, the
\* trigger and the realtime broadcast; cl is the clients after c's handler
\* has run on
UpdateMatch(c, new, cl) ==
    /\ PlayersUpdateOwnMatches(c, match)
    /\ match' = new
    /\ profiles' = update_profile_stats_after_match(match, new, profiles, matchHistory).profiles
    /\ matchHistory' = update_profile_stats_after_match(match, new, profiles, matchHistory).history
    /\ client' = Broadcast(cl, new)

\* both components are mounted; at most one of them is an instance kept from
\* an earlier match (effectMatch)
MatchInit ==
    /\ match = InitialMatch
    /\ matchHistory = <<>>
    /\ client \in {cl \in [MatchPlayers -> {ClientInit(e) : e \in BOOLEAN}] :
                      \E p \in MatchPlayers : ~cl[p].effectMatch}

\* the match screen is not in use
MatchIdle ==
    /\ match = InitialMatch
    /\ matchHistory = <<>>
    /\ client = [p \in MatchPlayers |-> ClientInit(FALSE)]

\* loadMatch: getMatch returns the row
LoadMatch(c) ==
    /\ client[c].loading
    /\ client' = [client EXCEPT ![c] =
                    [@ EXCEPT !.loading = FALSE,
                              !.loaded = TRUE,
                              !.numbersGrid = IF match.game_data.numbersGrid # NoGrid
                                              THEN match.game_data.numbersGrid
                                              ELSE @]]
    /\ UNCHANGED <<profiles, match, matchHistory>>
    /\ UNCHANGED notMatchVars

\* the callback given to subscribeToMatch, for a payload with status
\* countdown and a gameStartTime: setMatch, then handleCountdownStart starts
\* a countdown loop of CountdownSync; at zero the loop calls
\* startMemorization, which runs up to its await, or throws on
\* match.event_type when the `match` it reads is null
HandleCountdownStart(c) ==
    /\ client[c].payloads > 0
    /\ client[c].countdowns < MaxCountdowns
    /\ client' = [client EXCEPT ![c] =
                    [@ EXCEPT !.payloads = @ - 1,
                              !.loaded = TRUE,
                              !.countdowns = @ + 1,
                              !.requests = IF client[c].effectMatch
                                           THEN Issue(@, StatusRequest("memorization", NoGrid))
                                           ELSE @]]
    /\ UNCHANGED <<profiles, match, matchHistory>>
    /\ UNCHANGED notMatchVars

\* handleReady, up to the await inside startCountdown
HandleReady(c) ==
    /\ client[c].loaded
    /\ client[c].numbersGrid = NoGrid
    /\ client' = [client EXCEPT ![c] =
                    [@ EXCEPT !.numbersGrid = c,
                              !.requests = Issue(@, StatusRequest("countdown", c))]]
    /\ UNCHANGED <<profiles, match, matchHistory>>
    /\ UNCHANGED notMatchVars

\* MatchmakingService.updateMatchStatus as called by startCountdown,
\* startMemorization and startRecall, and what the caller does after the await
UpdateMatchStatus(c) ==
    \E r \in BagToSet(client[c].requests) :
        /\ r.op \in {"countdown", "memorization", "recall"}
        /\ UpdateMatch(c,
              [match EXCEPT !.status = r.op,
                            !.game_data = IF r.op = "countdown"
                                          THEN GameData(r.grid, TRUE) ELSE @],
              [client EXCEPT ![c] =
                  [@ EXCEPT !.requests = Answer(@, r),
                            !.intervals = IF r.op = "countdown" THEN @ ELSE Append(@, r.op),
                            !.refLive = IF r.op = "countdown" THEN @ ELSE TRUE]])
        /\ UNCHANGED notMatchVars

\* an interval counts timeRemaining down to zero: it clears timerRef.current
\* and calls startRecall (memorization) or submitAnswers (recall), each up to
\* its first await
IntervalExpires(c) ==
    \E i \in DOMAIN client[c].intervals, score \in Scores :
        LET cl == client[c]
            kind == cl.intervals[i]
            running == IF cl.refLive
                       THEN SubSeq(cl.intervals, 1, Len(cl.intervals) - 1)
                       ELSE cl.intervals
        IN  /\ cl.timerFires < MaxTimerFires
            /\ client' = [client EXCEPT ![c] =
                  IF kind = "memorization"
                  THEN [@ EXCEPT !.intervals = running,
                                 !.refLive = FALSE,
                                 !.timerFires = @ + 1,
                                 !.requests = Issue(@, StatusRequest("recall", NoGrid))]
                  ELSE [@ EXCEPT !.intervals = running,
                                 !.refLive = FALSE,
                                 !.timerFires = @ + 1,
                                 !.requests = Issue(@, ScoreRequest(score))]]
            /\ UNCHANGED <<profiles, match, matchHistory>>
            /\ UNCHANGED notMatchVars

\* the Submit button: submitAnswers up to its first await
Submit(c) ==
    \E score \in Scores :
        /\ client[c].loaded
        /\ client[c].submits < MaxSubmits
        /\ client' = [client EXCEPT ![c] =
                        [@ EXCEPT !.submits = @ + 1,
                                  !.requests = Issue(@, ScoreRequest(score))]]
        /\ UNCHANGED <<profiles, match, matchHistory>>
        /\ UNCHANGED notMatchVars

\* submitAnswers: the update of the caller's own score, then the select is issued
WriteScore(c) ==
    \E r \in BagToSet(client[c].requests) :
        /\ r.op = "score"
        /\ UpdateMatch(c,
              IF match.player1_id = c
              THEN [match EXCEPT !.player1_score = r.score]
              ELSE [match EXCEPT !.player2_score = r.score],
              [client EXCEPT ![c] =
                  [@ EXCEPT !.requests = Issue(Answer(@, r), SelectRequest)]])
        /\ UNCHANGED notMatchVars

\* submitAnswers: the select returns; with both scores in, completeMatch runs
\* up to its select of the two profiles
SelectMatch(c) ==
    \E r \in BagToSet(client[c].requests) :
        /\ r.op = "select"
        /\ client' = [client EXCEPT ![c] =
              [@ EXCEPT !.requests =
                  IF match.player1_score # NULL /\ match.player2_score # NULL
                  THEN Issue(Answer(@, r),
                             ProfilesRequest(determineMatchResult(match.player1_score,
                                                                  match.player2_score)))
                  ELSE Answer(@, r)]]
        /\ UNCHANGED <<profiles, match, matchHistory>>
        /\ UNCHANGED notMatchVars

\* completeMatch: the profiles return, the new ratings are computed and the
\* final update is issued
ReadProfiles(c) ==
    \E r \in BagToSet(client[c].requests) :
        /\ r.op = "profiles"
        /\ client' = [client EXCEPT ![c] =
              [@ EXCEPT !.requests =
                  Issue(Answer(@, r),
                        CompleteRequest(r.result,
                            updatePlayerRatings(PlayerRating(profiles[match.player1_id]),
                                                PlayerRating(profiles[match.player2_id]),
                                                r.result)))]]
        /\ UNCHANGED <<profiles, match, matchHistory>>
        /\ UNCHANGED notMatchVars

\* completeMatch: the update to completed
CompleteMatch(c) ==
    \E r \in BagToSet(client[c].requests) :
        /\ r.op = "complete"
        /\ UpdateMatch(c,
              [match EXCEPT !.status = "completed",
                            !.result = r.result,
                            !.winner_id = winnerId(r.result, match.player1_id,
                                                   match.player2_id),
                            !.player1_rating_after = r.updates.player1Update.newRating,
                            !.player2_rating_after = r.updates.player2Update.newRating,
                            !.player1_rating_change = r.updates.player1Update.ratingChange,
                            !.player2_rating_change = r.updates.player2Update.ratingChange],
              [client EXCEPT ![c] =
                  [@ EXCEPT !.requests = Answer(@, r)]])
        /\ UNCHANGED notMatchVars

\* ------------------------------------------------------------ CountdownSync
\* Times are in milliseconds; the local clock Date.now() is the variable now.

\* animationFrameId undefined
NoFrame == 0

\* EVENT_TIMINGS[...].countdownDuration * 1000
CountdownMs == 5000

CountdownSyncInit ==
    [serverOffset |-> 0, onGameStartCallback |-> FALSE, animationFrameId |-> NoFrame]

\* requestAnimationFrame hands out the ids 1, 2, ...
RafInit == [next |-> 1, pending |-> {}]

\* gameStarts      handleGameStart calls made
\* serverTime      message.serverTime of the last handleGameStart call
\* receivedAt      Date.now() at the last handleGameStart call
\* callbacks       times onGameStartCallback was invoked
\* ticks           times onTick was invoked
\* lastTick        the last value given to onTick
\* remaining       `remaining` of the last run of tick, which ran at local
\*                 time `at` for the countdown to gameStartTime
\* everStopped     stop() has been called
\* zeroReached     a run of tick has found remaining <= 0
\* stopped         "no"; "yes" once stop() is called before zero was reached
\*                 and until handleGameStart is called again
\* afterStop       a callback or an onTick was delivered while stopped = "yes"
SyncLogInit ==
    [gameStarts |-> 0, serverTime |-> 0, receivedAt |-> 0, callbacks |-> 0,
     ticks |-> 0, lastTick |-> 0, remaining |-> 0, gameStartTime |-> 0, at |-> 0,
     zeroReached |-> FALSE, everStopped |-> FALSE, stopped |-> "no",
     afterStop |-> FALSE]

GameStartMessage(serverTime, gameStartTime) ==
    [type |-> "GAME_START", serverTime |-> serverTime,
     gameStartTime |-> gameStartTime, countdownDuration |-> CountdownMs \div 1000]

\* Math.ceil(x / 1000) for x >= 0
CeilSeconds(x) == (x + 999) \div 1000

\* handleGameStart with the offset the wrong way round
serverOffset_LocalMinusServer(message, t) == t - message.serverTime

\* handleGameStart: this.serverOffset = message.serverTime - Date.now()
serverOffset(message, t) == message.serverTime - t

\* one run of the closure `tick` of startCountdown(gameStartTime, onTick) at
\* local time t: the CountdownSync, the pending frames and the log afterwards
tick(cs, rf, log, gameStartTime, t) ==
    LET adjustedNow == t + cs.serverOffset
        remaining == Max(0, gameStartTime - adjustedNow)
        seen == [log EXCEPT !.ticks = @ + 1,
                            !.remaining = remaining,
                            !.gameStartTime = gameStartTime,
                            !.at = t,
                            !.afterStop = @ \/ log.stopped = "yes"]
    IN  IF remaining <= 0
        THEN [sync |-> cs,
              raf  |-> rf,
              log  |-> [seen EXCEPT !.callbacks = IF cs.onGameStartCallback
                                                  THEN @ + 1 ELSE @,
                                    !.lastTick = 0,
                                    !.zeroReached = TRUE]]
        ELSE [sync |-> [cs EXCEPT !.animationFrameId = rf.next],
              raf  |-> [next |-> rf.next + 1,
                        pending |-> rf.pending \cup
                                    {[id |-> rf.next, gameStartTime |-> gameStartTime,
                                      at |-> t]}],
              log  |-> [seen EXCEPT !.lastTick = CeilSeconds(remaining)]]

\* stop(): cancelAnimationFrame(this.animationFrameId) when it is set
stop(cs, rf) ==
    IF cs.animationFrameId # NoFrame
    THEN [sync |-> [cs EXCEPT !.animationFrameId = NoFrame],
          raf  |-> [rf EXCEPT !.pending = {f \in @ : f.id # cs.animationFrameId}]]
    ELSE [sync |-> cs, raf |-> rf]

SyncInit ==
    /\ countdownSync = CountdownSyncInit
    /\ raf = RafInit
    /\ syncLog = SyncLogInit

\* the local clock advances
SyncTick ==
    /\ now + StepMs <= MaxSteps * StepMs
    /\ now' = now + StepMs
    /\ UNCHANGED syncVars
    /\ UNCHANGED notSyncVars

SetOnGameStart ==
    /\ ~countdownSync.onGameStartCallback
    /\ countdownSync' = [countdownSync EXCEPT !.onGameStartCallback = TRUE]
    /\ UNCHANGED <<now, raf, syncLog>>
    /\ UNCHANGED notSyncVars

\* handleGameStart(message, onTick): the offset is taken, then startCountdown
\* runs tick once. The server clock is within SkewMs of the local clock; the
\* game starts CountdownMs after server time 0 or StepMs later.
HandleGameStart ==
    \E skew \in {0 - SkewMs, 0, SkewMs}, gameStartTime \in {CountdownMs, CountdownMs + StepMs} :
        LET message == GameStartMessage(now + skew, gameStartTime)
            cs == [countdownSync EXCEPT !.serverOffset = serverOffset(message, now)]
            log == [syncLog EXCEPT !.gameStarts = @ + 1,
                                   !.serverTime = message.serverTime,
                                   !.receivedAt = now,
                                   !.stopped = "no"]
            after == tick(cs, raf, log, message.gameStartTime, now)
        IN  /\ syncLog.gameStarts < MaxGameStarts
            /\ countdownSync' = after.sync
            /\ raf' = after.raf
            /\ syncLog' = after.log
            /\ UNCHANGED now
            /\ UNCHANGED notSyncVars

\* the browser runs a requested frame, later than it was requested
AnimationFrame ==
    \E f \in raf.pending :
        LET after == tick(countdownSync, [raf EXCEPT !.pending = @ \ {f}], syncLog,
                          f.gameStartTime, now)
        IN  /\ now > f.at
            /\ countdownSync' = after.sync
            /\ raf' = after.raf
            /\ syncLog' = after.log
            /\ UNCHANGED now
            /\ UNCHANGED notSyncVars

Stop ==
    /\ countdownSync' = stop(countdownSync, raf).sync
    /\ raf' = stop(countdownSync, raf).raf
    /\ syncLog' = [syncLog EXCEPT !.everStopped = TRUE,
                                  !.stopped = IF syncLog.gameStarts > 0 /\ ~syncLog.zeroReached
                                              THEN "yes" ELSE @]
    /\ UNCHANGED now
    /\ UNCHANGED notSyncVars

\* ------------------------------------------------------- pure functions
NoCall == [fn |-> "none"]

CallIdle == call = NoCall

\* ------------------------------------------------------------- scoring.ts
\* A grid is a sequence of pages, a page a sequence of rows, a row a sequence
\* of cells. Sequences are indexed from 1; the indices the source reports
\* (lastFilledIndex, rowIndex) are kept 0-based.

Digits == {0, 1}

\* what a recalled cell holds: nothing, or a typed digit
RecalledCells == {"", "0", "1"}

\* Number.prototype.toString for a digit
toString(d) ==
    CASE d = 0 -> "0" [] d = 1 -> "1" [] d = 2 -> "2" [] d = 3 -> "3"
      [] d = 4 -> "4" [] d = 5 -> "5" [] d = 6 -> "6" [] d = 7 -> "7"
      [] d = 8 -> "8" [] d = 9 -> "9"

\* x[i] || [] for 0-based i = index - 1
orEmpty(x, index) == IF index \in 1..Len(x) THEN x[index] ELSE <<>>

\* Array.prototype.slice(0, n)
slice(x, n) == SubSeq(x, 1, Min(n, Len(x)))

RECURSIVE Concat(_)
Concat(seqs) == IF seqs = <<>> THEN <<>> ELSE Head(seqs) \o Concat(Tail(seqs))

RECURSIVE SumOf(_)
SumOf(numbers) == IF numbers = <<>> THEN 0 ELSE Head(numbers) + SumOf(Tail(numbers))

MaxOf(S) == CHOOSE x \in S : \A y \in S : y <= x

countErrors(recalled, actual) ==
    Cardinality({i \in 1..Min(Len(recalled), Len(actual)) :
                    recalled[i] # toString(actual[i])})

\* scoreRow rounding half credit down whatever the row length
scoreRow_AlwaysFloor(recalled, actual, digitsPerRow) ==
    LET errors == countErrors(recalled, actual)
        rowLength == Len(recalled)
    IN  [rowIndex |-> 0,
         errors |-> errors,
         score |-> IF errors = 0 THEN rowLength
                   ELSE IF errors = 1 THEN rowLength \div 2 ELSE 0,
         isComplete |-> rowLength = digitsPerRow]

scoreRow(recalled, actual, digitsPerRow) ==
    LET errors == countErrors(recalled, actual)
        rowLength == Len(recalled)
        isComplete == rowLength = digitsPerRow
    IN  [rowIndex |-> 0,
         errors |-> errors,
         score |-> IF errors = 0 THEN rowLength
                   ELSE IF errors = 1
                        THEN IF isComplete THEN rowLength \div 2
                                           ELSE (rowLength + 1) \div 2
                        ELSE 0,
         isComplete |-> isComplete]

\* the last cell of the row, filled or not
lastFilledIndex_LastCell(rowRecalled) == Len(rowRecalled) - 1

\* the loop "find last filled index in recalled row"; -1 when no cell is filled
lastFilledIndex(rowRecalled) ==
    LET filled == {i \in 1..Len(rowRecalled) : rowRecalled[i] # ""}
    IN  IF filled = {} THEN -1 ELSE MaxOf(filled) - 1

\* the rows the two loops over pages and rows do not skip, in the order they
\* are reached, each with its rowIndex and the two slices that are scored
scoredRows(recalledGrid, actualGrid) ==
    Concat([p \in 1..Len(actualGrid) |->
        Concat([r \in 1..Len(actualGrid[p]) |->
            LET rowRecalled == orEmpty(orEmpty(recalledGrid, p), r)
                rowActual == actualGrid[p][r]
                last == lastFilledIndex(rowRecalled)
            IN  IF last = -1
                THEN <<>>
                ELSE <<[rowIndex |-> (p - 1) * Len(actualGrid[p]) + (r - 1),
                        relevantRecalled |-> slice(rowRecalled, last + 1),
                        relevantActual |-> slice(rowActual, last + 1)]>>])])

\* the accuracy loop counting every cell that is not correct as wrong
digitAccuracy_BlankIsWrong(relevantRecalled, relevantActual) ==
    LET same(i) == /\ i <= Len(relevantActual)
                   /\ relevantRecalled[i] = toString(relevantActual[i])
    IN  [correct |-> Cardinality({i \in 1..Len(relevantRecalled) : same(i)}),
         wrong   |-> Cardinality({i \in 1..Len(relevantRecalled) : ~same(i)})]

\* the loop "count individual digit accuracy" over one scored row
digitAccuracy(relevantRecalled, relevantActual) ==
    LET same(i) == /\ i <= Len(relevantActual)
                   /\ relevantRecalled[i] = toString(relevantActual[i])
    IN  [correct |-> Cardinality({i \in 1..Len(relevantRecalled) : same(i)}),
         wrong   |-> Cardinality({i \in 1..Len(relevantRecalled) :
                                     ~same(i) /\ relevantRecalled[i] # ""})]

scoreNumberEvent(recalledGrid, actualGrid, digitsPerRow) ==
    LET rows == scoredRows(recalledGrid, actualGrid)
        rowScores ==
            [k \in 1..Len(rows) |->
                [scoreRow(rows[k].relevantRecalled, rows[k].relevantActual, digitsPerRow)
                    EXCEPT !.rowIndex = rows[k].rowIndex]]
        accuracy ==
            [k \in 1..Len(rows) |->
                digitAccuracy(rows[k].relevantRecalled, rows[k].relevantActual)]
    IN  [totalScore   |-> SumOf([k \in 1..Len(rows) |-> rowScores[k].score]),
         correctCount |-> SumOf([k \in 1..Len(rows) |-> accuracy[k].correct]),
         wrongCount   |-> SumOf([k \in 1..Len(rows) |-> accuracy[k].wrong]),
         rowScores    |-> rowScores]

\* the USA variant giving the half credit of the standard variant
scoreNumberEventUSA_HalfCredit(recalledGrid, actualGrid, digitsPerRow) ==
    scoreNumberEvent(recalledGrid, actualGrid, digitsPerRow)

scoreNumberEventUSA(recalledGrid, actualGrid, digitsPerRow) ==
    LET rows == scoredRows(recalledGrid, actualGrid)
        rowScores ==
            [k \in 1..Len(rows) |->
                LET errors == countErrors(rows[k].relevantRecalled, rows[k].relevantActual)
                    rowLength == Len(rows[k].relevantRecalled)
                IN  [rowIndex |-> rows[k].rowIndex,
                     errors |-> errors,
                     score |-> IF errors = 0 THEN rowLength ELSE 0,
                     isComplete |-> rowLength = digitsPerRow]]
        accuracy ==
            [k \in 1..Len(rows) |->
                digitAccuracy(rows[k].relevantRecalled, rows[k].relevantActual)]
    IN  [totalScore   |-> SumOf([k \in 1..Len(rows) |-> rowScores[k].score]),
         correctCount |-> SumOf([k \in 1..Len(rows) |-> accuracy[k].correct]),
         wrongCount   |-> SumOf([k \in 1..Len(rows) |-> accuracy[k].wrong]),
         rowScores    |-> rowScores]

\* the default standard (Hour Numbers)
DefaultStandard == 3234

Standards == {DefaultStandard, 400}

\* The raw scores up to 3300 for which rawScore / standard * 1000 is an exact
\* half in the rationals while the product of the two double operations is
\* below that half (so Math.round gives the integer below). For every other
\* pair with both numbers at most 3300 the double product lies on the same
\* side of every half as the rational one.
HalfRoundedDown(standard) ==
    IF standard = 400
    THEN {201, 203, 803, 811, 819, 1613, 1615, 1631, 1633, 3201, 3205, 3219,
          3223, 3237, 3241, 3251, 3255, 3269, 3273}
    ELSE {}

\* Math.floor in place of Math.round
calculateMillenniumScore_Floor(rawScore, standard) ==
    (rawScore * 1000) \div standard

\* Math.round((rawScore / standard) * 1000)
calculateMillenniumScore(rawScore, standard) ==
    IF rawScore \in HalfRoundedDown(standard)
    THEN (rawScore * 1000) \div standard
    ELSE (2000 * rawScore + standard) \div (2 * standard)

\* --- inputs and calls
RowsUpTo(cells, shortest, longest) ==
    UNION {[1..n -> cells] : n \in shortest..longest}

\* rows per page of the actual grids: MaxGridRows rows at most in all
GridShapes ==
    {shape \in UNION {[1..pages -> 1..MaxGridRows] : pages \in 1..MaxGridRows} :
        SumOf(shape) <= MaxGridRows}

\* the grids with the given rows per page
GridsOf(shape, rows) ==
    {grid \in [1..Len(shape) -> UNION {[1..n -> rows] : n \in 1..MaxGridRows}] :
        \A p \in 1..Len(shape) : Len(grid[p]) = shape[p]}

\* rows per page of the grids of one-cell rows: pages of different numbers of
\* rows, up to MaxIndexRows rows in all
IndexShapes ==
    {shape \in UNION {[1..pages -> 1..MaxGridRows] : pages \in 1..MaxIndexRows} :
        SumOf(shape) <= MaxIndexRows /\ SumOf(shape) > MaxGridRows}

\* An actual row has MaxCols digits, or one digit less; a recalled row has up
\* to MaxCols cells; the recalled grid has the pages of the actual grid or
\* lacks the last one; digitsPerRow is MaxCols or one less.
ScoringInit ==
    \/ \E shape \in GridShapes :
        \E recalledGrid \in GridsOf(shape, RowsUpTo(RecalledCells, 0, MaxCols)),
           actualGrid \in GridsOf(shape, RowsUpTo(Digits, MaxCols - 1, MaxCols)),
           digitsPerRow \in (MaxCols - 1)..MaxCols,
           pages \in (Len(shape) - 1)..Len(shape) :
            call = [fn |-> "scoring input",
                    recalledGrid |-> slice(recalledGrid, pages),
                    actualGrid |-> actualGrid,
                    digitsPerRow |-> digitsPerRow]
    \/ \E shape \in IndexShapes :
        \E recalledGrid \in GridsOf(shape, RowsUpTo(RecalledCells, 1, 1)),
           actualGrid \in GridsOf(shape, RowsUpTo(Digits, 1, 1)) :
            call = [fn |-> "scoring input",
                    recalledGrid |-> recalledGrid,
                    actualGrid |-> actualGrid,
                    digitsPerRow |-> 1]
    \/ \E rawScore \in 0..MaxRawScore, standard \in Standards :
            call = [fn |-> "millennium input", rawScore |-> rawScore,
                    standard |-> standard]

ScoreNumberEvent ==
    /\ call.fn = "scoring input"
    /\ call' = [fn |-> "scoreNumberEvent",
                recalledGrid |-> call.recalledGrid,
                actualGrid |-> call.actualGrid,
                digitsPerRow |-> call.digitsPerRow,
                result |-> scoreNumberEvent(call.recalledGrid, call.actualGrid,
                                            call.digitsPerRow)]
    /\ UNCHANGED notCallVars

ScoreNumberEventUSA ==
    /\ call.fn = "scoring input"
    /\ call' = [fn |-> "scoreNumberEventUSA",
                recalledGrid |-> call.recalledGrid,
                actualGrid |-> call.actualGrid,
                digitsPerRow |-> call.digitsPerRow,
                result |-> scoreNumberEventUSA(call.recalledGrid, call.actualGrid,
                                               call.digitsPerRow)]
    /\ UNCHANGED notCallVars

\* the caller's two grids after a call with relevant rows cut in place
\* (splice) instead of copied (slice)
gridsAfterScoring_SpliceInPlace(recalledGrid, actualGrid) ==
    [recalledGrid |->
        [p \in 1..Len(recalledGrid) |->
            [r \in 1..Len(recalledGrid[p]) |->
                IF p <= Len(actualGrid) /\ r <= Len(actualGrid[p])
                   /\ lastFilledIndex(recalledGrid[p][r]) # -1
                THEN slice(recalledGrid[p][r], lastFilledIndex(recalledGrid[p][r]) + 1)
                ELSE recalledGrid[p][r]]],
     actualGrid |-> actualGrid]

\* the caller's two grids after scoreNumberEvent or scoreNumberEventUSA has
\* returned: both functions only read the grids (indexing, length, slice, which
\* copies) and assign to their own locals and to the RowScore they created
gridsAfterScoring(recalledGrid, actualGrid) ==
    [recalledGrid |-> recalledGrid, actualGrid |-> actualGrid]

\* the same caller scores the grids it holds twice in a row
ScoreTwice ==
    /\ call.fn = "scoring input"
    /\ \E usa \in BOOLEAN :
        LET score(recalledGrid, actualGrid) ==
                IF usa
                THEN scoreNumberEventUSA(recalledGrid, actualGrid, call.digitsPerRow)
                ELSE scoreNumberEvent(recalledGrid, actualGrid, call.digitsPerRow)
            held == gridsAfterScoring(call.recalledGrid, call.actualGrid)
        IN  call' = [fn |-> "scored twice",
                     usa |-> usa,
                     recalledGrid |-> call.recalledGrid,
                     actualGrid |-> call.actualGrid,
                     digitsPerRow |-> call.digitsPerRow,
                     first |-> score(call.recalledGrid, call.actualGrid),
                     held |-> held,
                     second |-> score(held.recalledGrid, held.actualGrid),
                     heldAfter |-> gridsAfterScoring(held.recalledGrid, held.actualGrid)]
    /\ UNCHANGED notCallVars

CalculateMillenniumScore ==
    /\ call.fn = "millennium input"
    /\ call' = [fn |-> "calculateMillenniumScore",
                rawScore |-> call.rawScore,
                standard |-> call.standard,
                result |-> calculateMillenniumScore(call.rawScore, call.standard)]
    /\ UNCHANGED notCallVars

\* --------------------------------------------------------- elo.ts, applied
\* the ratings given to calculateNewRating: below, at and above the floor, the
\* default and a master's
RatingInputs ==
    {0, MinimumRating - 1, MinimumRating, MinimumRating + 1, MinimumRating + 15,
     DefaultRating, MasterPeak + 100}

KFactors == {10, 20, 32, 40}

\* the stored profiles a rated match starts from: ratings at and just above the
\* floor and the default; the games played that such ratings take; the peak is
\* the default (no higher rating was reached) or a master's
StoredProfiles ==
    {Profile(rating, games, peak) :
        rating \in {MinimumRating, MinimumRating + 4, MinimumRating + 15, DefaultRating},
        games \in {NewPlayerGames + 10},
        peak \in {DefaultRating, MasterPeak}}

\* --- calculateExpectedScore in double arithmetic
\* A double x with 1/128 < x < 2 is a multiple of 2^-59; it is carried
\* exactly, as the integer N = x * 2^59 in two limbs of 30 bits,
\* <<N \div 2^30, N % 2^30>>.
Limb == 1073741824

\* the doubles 1 and 0.5
DoubleOne == <<536870912, 0>>
DoubleHalf == <<268435456, 0>>

\* the unit in the last place of a double in limbs, as a count of 2^-59: a
\* double has 53 significant bits
RECURSIVE Quantum(_)
Quantum(hi) == IF hi < 8388608 THEN 1 ELSE 2 * Quantum(hi \div 2)

\* x + y in double arithmetic: the exact sum rounded to 53 significant bits,
\* ties to even
doubleAdd(x, y) ==
    LET lo == (x[2] + y[2]) % Limb
        hi == x[1] + y[1] + (x[2] + y[2]) \div Limb
        q == Quantum(hi)
        r == lo % q
        down == lo - r
        up == 2 * r > q \/ (2 * r = q /\ (down \div q) % 2 = 1)
    IN  IF ~up THEN <<hi, down>>
        ELSE IF down + q = Limb THEN <<hi + 1, 0>>
        ELSE <<hi, down + q>>

\* 1 / (1 + Math.pow(10, d / 400)) for d = ratingB - ratingA, from IEEE double
\* division and addition. Math.pow is implementation-approximated: the set
\* holds the quotient for the correctly rounded power and for its two
\* neighbouring doubles (Math.pow(10, 0) is 1 in every implementation).
ExpectedScoreDoubles(d) ==
    CASE d = -400 -> {<<488064465, 488064448>>}
      [] d = -360 -> {<<476840277, 755098560>>}
      [] d = -338 -> {<<469748791, 49060992>>}
      [] d = -298 -> {<<455018887, 759101440>>}
      [] d = -62  -> {<<315835773, 767328704>>, <<315835773, 767328768>>}
      [] d = -40  -> {<<299204405, 92526592>>}
      [] d = 0    -> {<<268435456, 0>>}
      [] d = 40   -> {<<237666506, 981215232>>}
      [] d = 62   -> {<<221035138, 306413088>>}
      [] d = 298  -> {<<81852024, 314640400>>, <<81852024, 314640416>>}
      [] d = 338  -> {<<67122120, 1024680768>>, <<67122120, 1024680784>>}
      [] d = 360  -> {<<60030634, 318643272>>, <<60030634, 318643280>>,
                      <<60030634, 318643296>>}
      [] d = 400  -> {<<48806446, 585677352>>, <<48806446, 585677360>>,
                      <<48806446, 585677368>>}

\* the ratings given to calculateExpectedScore
ExpectedScoreRatings ==
    {DefaultRating, DefaultRating + 40, DefaultRating + 338, DefaultRating + 400}

\* the doubles calculateExpectedScore(ratingA, ratingB) can return
calculateExpectedScore(ratingA, ratingB) == ExpectedScoreDoubles(ratingB - ratingA)

\* the update completeMatch makes to the match of A and B, from the profiles
\* it selected
completeMatchUpdate(row, profs, result) ==
    LET ratingUpdates == updatePlayerRatings(PlayerRating(profs[row.player1_id]),
                                             PlayerRating(profs[row.player2_id]),
                                             result)
    IN  [row EXCEPT !.status = "completed",
                    !.result = result,
                    !.winner_id = winnerId(result, row.player1_id, row.player2_id),
                    !.player1_rating_after = ratingUpdates.player1Update.newRating,
                    !.player2_rating_after = ratingUpdates.player2Update.newRating,
                    !.player1_rating_change = ratingUpdates.player1Update.ratingChange,
                    !.player2_rating_change = ratingUpdates.player2Update.ratingChange]

\* the match createMatch inserts for A against B, brought to recall with both
\* scores submitted
RecallMatch(profs, score1, score2) ==
    [InitialMatch EXCEPT !.status = "recall",
                         !.player1_rating_before = profs["A"].rating,
                         !.player2_rating_before = profs["B"].rating,
                         !.player1_score = score1,
                         !.player2_score = score2]

EloInit ==
    \/ \E currentRating \in RatingInputs, opponentRating \in RatingInputs,
          twiceScore \in {0, 1, 2}, kFactor \in KFactors :
            call = [fn |-> "rating input", currentRating |-> currentRating,
                    opponentRating |-> opponentRating, twiceScore |-> twiceScore,
                    kFactor |-> kFactor]
    \/ \E ratingA \in ExpectedScoreRatings, ratingB \in ExpectedScoreRatings :
            call = [fn |-> "ratings input", ratingA |-> ratingA, ratingB |-> ratingB]
    \/ \E player \in PlayerRatingInputs :
            call = [fn |-> "player input", player |-> player]
    \/ \E player1 \in PlayerRatingInputs, player2 \in PlayerRatingInputs :
            call = [fn |-> "players input", player1 |-> player1, player2 |-> player2]
    \/ \E profs \in [MatchPlayers -> StoredProfiles] :
            call = [fn |-> "profiles", profiles |-> profs, completions |-> 0]

CalculateNewRating ==
    /\ call.fn = "rating input"
    /\ call' = [fn |-> "calculateNewRating",
                currentRating |-> call.currentRating,
                opponentRating |-> call.opponentRating,
                twiceScore |-> call.twiceScore,
                kFactor |-> call.kFactor,
                result |-> calculateNewRating(call.currentRating, call.opponentRating,
                                              call.twiceScore, call.kFactor)]
    /\ UNCHANGED notCallVars

CalculateExpectedScore ==
    /\ call.fn = "ratings input"
    /\ \E result \in calculateExpectedScore(call.ratingA, call.ratingB) :
        call' = [fn |-> "calculateExpectedScore",
                 ratingA |-> call.ratingA,
                 ratingB |-> call.ratingB,
                 result |-> result]
    /\ UNCHANGED notCallVars

GetDynamicKFactor ==
    /\ call.fn = "player input"
    /\ call' = [fn |-> "getDynamicKFactor",
                player |-> call.player,
                result |-> getDynamicKFactor(call.player.rating, call.player.gamesPlayed,
                                             call.player.peakRating)]
    /\ UNCHANGED notCallVars

UpdatePlayerRatings ==
    /\ call.fn = "players input"
    /\ \E result \in MatchResults :
        call' = [fn |-> "updatePlayerRatings",
                 player1 |-> call.player1,
                 player2 |-> call.player2,
                 matchResult |-> result,
                 result |-> updatePlayerRatings(call.player1, call.player2, result)]
    /\ UNCHANGED notCallVars

\* One match of A against B from recall to completed: completeMatch computes
\* the ratings from the stored profiles and updates the match; the trigger
\* on_match_completed stores them in the profiles. The next match starts from
\* the profiles this one left.
CompleteRatedMatch ==
    /\ call.fn = "profiles"
    /\ call.completions < MaxCompletions
    /\ \E score1 \in Scores, score2 \in Scores :
        LET old == RecallMatch(call.profiles, score1, score2)
            new == completeMatchUpdate(old, call.profiles,
                                       determineMatchResult(score1, score2))
            after == update_profile_stats_after_match(old, new, call.profiles, <<>>)
        IN  call' = [fn |-> "profiles",
                     profiles |-> after.profiles,
                     completions |-> call.completions + 1,
                     before |-> call.profiles,
                     completed |-> new,
                     history |-> after.history]
    /\ UNCHANGED notCallVars

\* ------------------------------------------- MatchmakingService, applied
\* the wait time is Date.now() minus joined_at: it is negative when the
\* client's clock is behind the database's
\* user ids of the queued opponents, in the order they joined
OpponentIds == <<"P1", "P2", "P3", "P4", "P5", "P6", "P7", "P8", "P9", "P10",
                 "P11", "P12", "P13">>

\* seconds between two opponents' joins
JoinSpacing == 4

\* An opponent's queue entry. The ordinary opponent is 90 points above the
\* requester (rating 1500, event speed); a varied one has the requester's
\* rating ("near"), is 80 points above ("close"), 300 points above ("far"),
\* or queues for another event ("other").
OpponentEntry(k, kind) ==
    QueueEntry(OpponentIds[k],
               CASE kind = "near" -> DefaultRating
                 [] kind = "close" -> DefaultRating + 80
                 [] kind = "far" -> DefaultRating + 300
                 [] kind = "other" -> DefaultRating
                 [] OTHER -> DefaultRating + 90,
               IF kind = "other" THEN "national" ELSE "speed",
               JoinSpacing * k)

\* the requester has waited 0, 25 or 200 seconds, or has no queue entry
ServiceInit ==
    \/ \E waitTimeSeconds \in (0 - 2 * timeInterval)..MaxWait :
            call = [fn |-> "wait input", waitTimeSeconds |-> waitTimeSeconds]
    \/ \E n \in 0..MaxOpponents, waited \in {0, 25, 200}, queued \in BOOLEAN :
        \E varied \in {v \in SUBSET (1..n) : Cardinality(v) <= MaxVaried} :
        \E kinds \in [varied -> {"near", "close", "far", "other"}] :
            LET t == JoinSpacing * (MaxOpponents + 2) + 200
            IN  call = [fn |-> "findMatch input",
                        queue |-> {OpponentEntry(k, IF k \in varied THEN kinds[k]
                                                    ELSE "ordinary") : k \in 1..n}
                                  \cup (IF queued
                                        THEN {QueueEntry("Me", DefaultRating, "speed",
                                                         t - waited)}
                                        ELSE {}),
                        userId |-> "Me",
                        rating |-> DefaultRating,
                        eventType |-> "speed",
                        now |-> t]

    \/ \E q \in SUBSET {OpponentEntry(k, "ordinary") : k \in 1..3},
          caller \in {OpponentIds[1], OpponentIds[2]},
          userId \in {OpponentIds[1], OpponentIds[2], OpponentIds[3]} :
            call = [fn |-> "leaveQueue input", queue |-> q,
                    caller |-> caller, userId |-> userId]

CalculateSearchRange ==
    /\ call.fn = "wait input"
    /\ call' = [fn |-> "calculateSearchRange",
                waitTimeSeconds |-> call.waitTimeSeconds,
                result |-> calculateSearchRange(call.waitTimeSeconds)]
    /\ UNCHANGED notCallVars

\* leaveQueue(userId) called twice in a row by a signed-in player (the lobby
\* calls it for its own user, createMatch for both players of the match)
LeaveQueueTwice ==
    /\ call.fn = "leaveQueue input"
    /\ LET once == leaveQueue(call.caller, call.queue, call.userId)
       IN  call' = [fn |-> "leaveQueue",
                    queue |-> call.queue,
                    caller |-> call.caller,
                    userId |-> call.userId,
                    once |-> once,
                    twice |-> leaveQueue(call.caller, once, call.userId)]
    /\ UNCHANGED notCallVars

FindMatch ==
    /\ call.fn = "findMatch input"
    /\ \E result \in findMatch(call.queue, call.userId, call.rating, call.eventType,
                                call.now) :
        call' = [fn |-> "findMatch",
                 queue |-> call.queue,
                 userId |-> call.userId,
                 rating |-> call.rating,
                 eventType |-> call.eventType,
                 now |-> call.now,
                 result |-> result]
    /\ UNCHANGED notCallVars

\* ---------------------------------------------------------- specifications
InitQueue ==
    /\ now = 0
    /\ state = constructor("CREATED", 0).state
    /\ stateHistory = constructor("CREATED", 0).stateHistory
    /\ lastOp = OpRecord("constructor", NoState, TRUE, NoPolicy)
    /\ calls = 0
    /\ snapshot = <<>>
    /\ QueueInit
    /\ MatchIdle
    /\ SyncInit
    /\ CallIdle

NextQueue ==
    \/ QueueTick
    \/ \E p \in Players : JoinQueue(p)
    \/ \E p \in Players : LeaveQueue(p)
    \/ \E p \in Players : Remount(p)
    \/ \E p \in Players : PollFindMatch(p)
    \/ \E p \in Players : CreateMatchInsert(p)
    \/ \E p \in Players : CreateMatchLeave(p)
    \/ \E p \in Players : CleanStaleEntries(p)
    \/ clean_stale_queue_entries

SpecQueue == InitQueue /\ [][NextQueue]_vars

\* Fair scheduling of the lobbies: a running polling interval keeps firing
\* (setInterval, every 2 seconds) and a poll callback that awaits createMatch
\* or its leaveQueue calls is resumed.
QueueFairness ==
    \A p \in Players :
        /\ WF_vars(PollFindMatch(p))
        /\ WF_vars(CreateMatchInsert(p))
        /\ WF_vars(CreateMatchLeave(p))

SpecQueueFair == InitQueue /\ [][NextQueue]_vars /\ QueueFairness

InitFSM == FsmInit /\ QueueInit /\ MatchIdle /\ SyncInit /\ CallIdle

NextFSM ==
    \/ Tick
    \/ Transition
    \/ CanTransition
    \/ GetDisconnectionPolicy
    \/ GetStateHistory
    \/ IsTerminalState
    \/ Reset

SpecFSM == InitFSM /\ [][NextFSM]_vars

InitMatch ==
    /\ now = 0
    /\ state = constructor("CREATED", 0).state
    /\ stateHistory = constructor("CREATED", 0).stateHistory
    /\ lastOp = OpRecord("constructor", NoState, TRUE, NoPolicy)
    /\ calls = 0
    /\ snapshot = <<>>
    /\ QueueInit
    /\ MatchInit
    /\ SyncInit
    /\ CallIdle

NextMatch ==
    \/ \E c \in MatchPlayers : LoadMatch(c)
    \/ \E c \in MatchPlayers : HandleReady(c)
    \/ \E c \in MatchPlayers : HandleCountdownStart(c)
    \/ \E c \in MatchPlayers : UpdateMatchStatus(c)
    \/ \E c \in MatchPlayers : IntervalExpires(c)
    \/ \E c \in MatchPlayers : Submit(c)
    \/ \E c \in MatchPlayers : WriteScore(c)
    \/ \E c \in MatchPlayers : SelectMatch(c)
    \/ \E c \in MatchPlayers : ReadProfiles(c)
    \/ \E c \in MatchPlayers : CompleteMatch(c)

SpecMatch == InitMatch /\ [][NextMatch]_vars

InitSync ==
    /\ now = 0
    /\ state = constructor("CREATED", 0).state
    /\ stateHistory = constructor("CREATED", 0).stateHistory
    /\ lastOp = OpRecord("constructor", NoState, TRUE, NoPolicy)
    /\ calls = 0
    /\ snapshot = <<>>
    /\ QueueInit
    /\ MatchIdle
    /\ SyncInit
    /\ CallIdle

NextSync ==
    \/ SyncTick
    \/ SetOnGameStart
    \/ HandleGameStart
    \/ AnimationFrame
    \/ Stop

SpecSync == InitSync /\ [][NextSync]_vars

InitScoring ==
    /\ now = 0
    /\ state = constructor("CREATED", 0).state
    /\ stateHistory = constructor("CREATED", 0).stateHistory
    /\ lastOp = OpRecord("constructor", NoState, TRUE, NoPolicy)
    /\ calls = 0
    /\ snapshot = <<>>
    /\ QueueInit
    /\ MatchIdle
    /\ SyncInit
    /\ ScoringInit

NextScoring ==
    \/ ScoreNumberEvent
    \/ ScoreNumberEventUSA
    \/ ScoreTwice
    \/ CalculateMillenniumScore

SpecScoring == InitScoring /\ [][NextScoring]_vars

InitElo ==
    /\ now = 0
    /\ state = constructor("CREATED", 0).state
    /\ stateHistory = constructor("CREATED", 0).stateHistory
    /\ lastOp = OpRecord("constructor", NoState, TRUE, NoPolicy)
    /\ calls = 0
    /\ snapshot = <<>>
    /\ QueueInit
    /\ MatchIdle
    /\ SyncInit
    /\ EloInit

NextElo ==
    \/ CalculateNewRating
    \/ CalculateExpectedScore
    \/ GetDynamicKFactor
    \/ UpdatePlayerRatings
    \/ CompleteRatedMatch

SpecElo == InitElo /\ [][NextElo]_vars

InitService ==
    /\ now = 0
    /\ state = constructor("CREATED", 0).state
    /\ stateHistory = constructor("CREATED", 0).stateHistory
    /\ lastOp = OpRecord("constructor", NoState, TRUE, NoPolicy)
    /\ calls = 0
    /\ snapshot = <<>>
    /\ QueueInit
    /\ MatchIdle
    /\ SyncInit
    /\ ServiceInit

NextService ==
    \/ CalculateSearchRange
    \/ FindMatch
    \/ LeaveQueueTwice

SpecService == InitService /\ [][NextService]_vars

\* ================================================================ claims
IsPrefix(a, b) == Len(a) <= Len(b) /\ SubSeq(b, 1, Len(a)) = a

\* the step just taken is a public call named op
IsCall(op) == calls' # calls /\ lastOp'.op = op

\* ---------------------------------------------------------------- C1
\* the transition table as the specification states it (section 4.1)
C1_AllowedDestinations(s) ==
    CASE s = "CREATED"             -> {"WAITING_FOR_PLAYERS", "CANCELLED"}
      [] s = "WAITING_FOR_PLAYERS" -> {"COUNTDOWN", "CANCELLED"}
      [] s = "COUNTDOWN"           -> {"MEMORIZATION", "PAUSED", "CANCELLED"}
      [] s = "MEMORIZATION"        -> {"RECALL", "PAUSED", "CANCELLED"}
      [] s = "RECALL"              -> {"COMPLETED", "PAUSED", "CANCELLED"}
      [] s = "PAUSED"              -> {"COUNTDOWN", "MEMORIZATION", "RECALL", "CANCELLED"}
      [] OTHER                     -> {}

\* C1: transition(T) called in state S returns true and makes T the current
\* state if and only if T is in S's allowed-destination set; canTransition(T)
\* returns the same verdict.
C1_TransitionIffAllowed ==
    [][ /\ IsCall("transition") =>
             /\ lastOp'.ok <=> lastOp'.arg \in C1_AllowedDestinations(state)
             /\ (lastOp'.ok /\ state' = lastOp'.arg)
                  <=> lastOp'.arg \in C1_AllowedDestinations(state)
        /\ IsCall("canTransition") =>
             (lastOp'.ok <=> lastOp'.arg \in C1_AllowedDestinations(state))
      ]_vars

\* a machine that was driven into COMPLETED by accepted transitions
C1_Witness ==
    /\ lastOp.op = "transition"
    /\ lastOp.ok
    /\ state = "COMPLETED"
    /\ Len(stateHistory) >= 3

\* ---------------------------------------------------------------- C2
\* C2: a rejected transition mutates nothing: it returns false and the current
\* state and the state-history log are what they were before the call.
C2_RejectedTransitionMutatesNothing ==
    [][ (IsCall("transition") /\ lastOp'.arg \notin C1_AllowedDestinations(state)) =>
             /\ lastOp'.ok = FALSE
             /\ state' = state
             /\ stateHistory' = stateHistory
      ]_vars

\* a rejected transition on a machine whose log already has several entries
C2_Witness ==
    /\ lastOp.op = "transition"
    /\ ~lastOp.ok
    /\ Len(stateHistory) >= 2
    /\ state = "MEMORIZATION"

\* ---------------------------------------------------------------- C3
\* C3 as stated: once the current state is COMPLETED or CANCELLED, no public
\* operation (reset included) makes it anything else.
C3_TerminalAbsorbingUnderAllOps ==
    [][ (state \in {"COMPLETED", "CANCELLED"}) => state' = state ]_vars

\* C3 amended: once the current state is COMPLETED or CANCELLED, no call of
\* transition, canTransition, getDisconnectionPolicy, getStateHistory or
\* isTerminalState makes it anything else; reset() makes it CREATED.
C3_TerminalAbsorbingExceptReset ==
    [][ /\ (state \in {"COMPLETED", "CANCELLED"} /\ ~IsCall("reset")) => state' = state
        /\ IsCall("reset") => state' = "CREATED"
      ]_vars

\* a transition attempted on a machine in a terminal state (and rejected)
C3_Witness ==
    /\ state \in {"COMPLETED", "CANCELLED"}
    /\ lastOp.op = "transition"
    /\ ~lastOp.ok
    /\ calls >= 2

\* ---------------------------------------------------------------- C10
\* C10 as stated: the log is append-only over every public operation: each
\* call leaves the earlier log as a prefix, a successful transition adds one
\* entry and nothing else adds or removes one; every snapshot returned by
\* getStateHistory() stays a prefix of the log.
C10_AppendOnlyUnderAllOps ==
    /\ [](snapshot # <<>> => IsPrefix(snapshot, stateHistory))
    /\ [][ /\ IsPrefix(stateHistory, stateHistory')
           /\ Len(stateHistory') =
                Len(stateHistory) + (IF IsCall("transition") /\ lastOp'.ok THEN 1 ELSE 0)
         ]_vars

\* C10 amended: the log starts with one entry for the initial state; every
\* call other than reset() leaves the earlier log as a prefix, a successful
\* transition appends exactly one entry (the new state) and a rejected one
\* adds none; reset() replaces the log by a single CREATED entry.
C10_AppendOnlyExceptReset ==
    /\ [](calls = 0 => Len(stateHistory) = 1)
    /\ [][ /\ ~IsCall("reset") =>
                /\ IsPrefix(stateHistory, stateHistory')
                /\ Len(stateHistory') =
                     Len(stateHistory) + (IF IsCall("transition") /\ lastOp'.ok THEN 1 ELSE 0)
                /\ (IsCall("transition") /\ lastOp'.ok) =>
                     stateHistory'[Len(stateHistory')].state = lastOp'.arg
           /\ IsCall("reset") =>
                (Len(stateHistory') = 1 /\ stateHistory'[1].state = "CREATED")
         ]_vars

\* a log of three entries of which an earlier snapshot is a proper prefix,
\* after a rejected transition
C10_Witness ==
    /\ Len(stateHistory) >= 3
    /\ snapshot # <<>>
    /\ Len(snapshot) < Len(stateHistory)
    /\ IsPrefix(snapshot, stateHistory)
    /\ lastOp.op = "transition"
    /\ ~lastOp.ok

\* ---------------------------------------------------------------- C4
\* C4: two queued players whose polling loops run concurrently never both
\* succeed in creating a match: at most one match row exists for a pair.
C4_AtMostOneMatchPerPair ==
    \A i, j \in 1..Len(matches) :
        i # j =>
          {matches[i].player1_id, matches[i].player2_id}
            # {matches[j].player1_id, matches[j].player2_id}

\* ---------------------------------------------------------------- C5
\* C5: a player already claimed by a pairing cannot be claimed by a second
\* one: a match row is inserted only while both its players still have their
\* queue entry, and no queue entry is used for two match rows.
C5_NoPlayerClaimedTwice ==
    /\ \A i \in 1..Len(matchEntries) : matchEntries[i][1] /\ matchEntries[i][2]
    /\ \A p \in Players : claimCount[p] <= 1

\* ---------------------------------------------------------------- C6
\* C6: each player has zero or one queue entries in every reachable state;
\* joinQueue for a player who already has an entry returns null and leaves
\* the queue (the existing entry, its joined_at and rating) as it was, and
\* joinQueue for a player without an entry adds exactly that player's entry.
C6_OneEntryPerPlayer ==
    /\ [](\A u \in Players : Cardinality({r \in queue : r.user_id = u}) <= 1)
    /\ [][ joinLog'.n # joinLog.n =>
             IF HasEntry(queue, joinLog'.user)
             THEN ~joinLog'.joined /\ queue' = queue
             ELSE /\ joinLog'.joined
                  /\ \E r \in queue' :
                       /\ r.user_id = joinLog'.user
                       /\ r.joined_at = now
                       /\ r.rating = profiles[r.user_id].rating
                       /\ queue' = queue \cup {r}
         ]_vars

\* a joinQueue call was rejected for a player whose entry is older than the call
C6_Witness ==
    /\ joinLog.n >= 2
    /\ ~joinLog.joined
    /\ \E r \in queue : r.user_id = joinLog.user /\ r.joined_at < now

\* ---------------------------------------------------------------- C7
RatingFields(m) ==
    <<m.player1_rating_after, m.player2_rating_after,
      m.player1_rating_change, m.player2_rating_change>>

\* C7: the rating result fields of the match (ratingAfter and ratingChange of
\* both players) are written once, in the step that moves status into
\* completed, and are never rewritten afterwards: a completed match has them,
\* and they only ever change from all-NULL, in a step that takes status from
\* a non-completed value to completed.
C7_RatingsWrittenOnceAtCompletion ==
    /\ [](match.status = "completed" => \A i \in 1..4 : RatingFields(match)[i] # NULL)
    /\ [][ RatingFields(match') # RatingFields(match) =>
             /\ \A i \in 1..4 : RatingFields(match)[i] = NULL
             /\ match.status # "completed"
             /\ match'.status = "completed" ]_vars

\* ---------------------------------------------------------------- C8
HistoryRowsOf(p) == {i \in 1..Len(matchHistory) : matchHistory[i].user_id = p}

\* C8: a match that reaches completed has exactly one match-history row per
\* participant, and no participant ever has more than one, however the status
\* updates and completions of the two clients interleave or repeat.
C8_OneHistoryRowPerParticipant ==
    /\ \A p \in MatchPlayers : Cardinality(HistoryRowsOf(p)) <= 1
    /\ match.status = "completed" =>
          \A p \in MatchPlayers : Cardinality(HistoryRowsOf(p)) = 1

\* ---------------------------------------------------------------- C9
\* the MatchState a persisted status stands for
MatchStateOf(status) ==
    CASE status = "created"             -> "CREATED"
      [] status = "waiting_for_players" -> "WAITING_FOR_PLAYERS"
      [] status = "countdown"           -> "COUNTDOWN"
      [] status = "memorization"        -> "MEMORIZATION"
      [] status = "recall"              -> "RECALL"
      [] status = "completed"           -> "COMPLETED"
      [] status = "cancelled"           -> "CANCELLED"
      [] status = "paused"              -> "PAUSED"

\* C9: the persisted status of the match only ever changes along an edge of
\* the transition table; in particular it never leaves completed or cancelled.
C9_StatusFollowsTransitionTable ==
    [][ match'.status # match.status =>
          MatchStateOf(match'.status) \in C1_AllowedDestinations(MatchStateOf(match.status)) ]_vars

\* C11 (as stated): over any sequence of handleGameStart calls and animation
\* frames with no stop() in between, the on-game-start callback of one
\* CountdownSync is invoked at most once.
C11_CallbackOnceWithoutStop ==
    ~syncLog.everStopped => syncLog.callbacks <= 1

\* C12 (as stated): once stop() was called before zero was reached, neither the
\* on-game-start callback nor onTick is invoked until handleGameStart is called
\* again, however many handleGameStart calls came before the stop().
C12_NothingDeliveredAfterStop ==
    ~syncLog.afterStop

\* C13 (as stated): once gameStartTime and the digit grid are written into the
\* match's game_data, no later write replaces them, whatever the interleaving
\* of the two participants' Ready actions.
C13_GameDataWrittenOnce ==
    [][match.game_data.gameStartTime => match'.game_data = match.game_data]_vars

\* C14 (as stated): the remaining time derived at local time t is
\* max(0, gameStartTime + offset - t) with offset = serverTime - local clock at
\* receipt of the message.
C14_RemainingAddsOffset ==
    syncLog.ticks > 0 =>
        syncLog.remaining =
            Max(0, syncLog.gameStartTime + (syncLog.serverTime - syncLog.receivedAt)
                   - syncLog.at)

\* C14 (amended): the remaining time derived at local time t is
\* max(0, gameStartTime - offset - t), where offset = serverTime - local clock
\* at receipt of the most recently handled message.
C14_RemainingSubtractsOffset ==
    syncLog.ticks > 0 =>
        syncLog.remaining =
            Max(0, syncLog.gameStartTime - (syncLog.serverTime - syncLog.receivedAt)
                   - syncLog.at)

\* a frame after the receipt derived a positive remaining time under a
\* non-zero offset
C14_Witness ==
    /\ syncLog.ticks > 1
    /\ syncLog.serverTime # syncLog.receivedAt
    /\ syncLog.at > syncLog.receivedAt
    /\ syncLog.remaining > 0

\* the cells of a recalled row that are filled
FilledCells(row) == {i \in 1..Len(row) : row[i] # ""}

\* the rows of the actual grid as <<page, row>>, page by page
GridSlots(actualGrid) ==
    Concat([p \in 1..Len(actualGrid) |-> [r \in 1..Len(actualGrid[p]) |-> <<p, r>>]])

\* the recalled row at a slot; a row the recalled grid lacks is empty
RecalledAt(recalledGrid, slot) ==
    IF slot[1] \in 1..Len(recalledGrid) /\ slot[2] \in 1..Len(recalledGrid[slot[1]])
    THEN recalledGrid[slot[1]][slot[2]]
    ELSE <<>>

\* the WMC rule for a recalled row with a filled cell, against an actual row
\* that has a digit for every attempted cell
WmcRowScore(recalledRow, actualRow, digitsPerRow) ==
    LET L == MaxOf(FilledCells(recalledRow))
        e == Cardinality({i \in 1..L : recalledRow[i] # toString(actualRow[i])})
    IN  IF e = 0 THEN L
        ELSE IF e = 1
             THEN IF L = digitsPerRow
                  THEN CHOOSE half \in 0..L : 2 * half <= L /\ L < 2 * half + 2
                  ELSE CHOOSE half \in 0..L : 2 * half >= L /\ L > 2 * half - 2
             ELSE 0

\* every attempted cell has an actual digit
AttemptedWithinActual(recalledGrid, actualGrid) ==
    \A k \in 1..Len(GridSlots(actualGrid)) :
        LET slot == GridSlots(actualGrid)[k]
        IN  \A i \in FilledCells(RecalledAt(recalledGrid, slot)) :
                i <= Len(actualGrid[slot[1]][slot[2]])

WithRow(grid, slot, row) == [grid EXCEPT ![slot[1]][slot[2]] = row]

\* the rows that agree with a row on its first n cells
SameUpTo(row, n, rows) == {other \in rows : slice(other, n) = slice(row, n)}

\* C16: scoreNumberEvent has one rowScores entry per recalled row with a filled
\* cell; a recalled grid with no filled cell scores nothing; and the result is
\* the same for every other actual row that agrees up to lastFilledIndex and
\* for every other number of empty cells after lastFilledIndex (for an empty
\* recalled row: for every actual row and every number of empty cells).
C16_OnlyAttemptedCellsScored ==
    call.fn = "scoreNumberEvent" =>
        LET slots == GridSlots(call.actualGrid)
            attempted(k) ==
                LET filled == FilledCells(RecalledAt(call.recalledGrid, slots[k]))
                IN  IF filled = {} THEN 0 ELSE MaxOf(filled)
        IN  /\ Len(call.result.rowScores)
                 = Cardinality({k \in 1..Len(slots) : attempted(k) > 0})
            /\ (\A k \in 1..Len(slots) : attempted(k) = 0) =>
                    /\ call.result.totalScore = 0
                    /\ call.result.correctCount = 0
                    /\ call.result.wrongCount = 0
            /\ \A k \in 1..Len(slots) :
                /\ \A actualRow \in SameUpTo(call.actualGrid[slots[k][1]][slots[k][2]],
                                             attempted(k), RowsUpTo(Digits, 0, MaxCols)) :
                        scoreNumberEvent(call.recalledGrid,
                                         WithRow(call.actualGrid, slots[k], actualRow),
                                         call.digitsPerRow) = call.result
                /\ slots[k][1] <= Len(call.recalledGrid) =>
                    \A recalledRow \in SameUpTo(call.recalledGrid[slots[k][1]][slots[k][2]],
                                                attempted(k), RowsUpTo(RecalledCells, 0, MaxCols)) :
                        FilledCells(recalledRow) \subseteq 1..attempted(k) =>
                            scoreNumberEvent(WithRow(call.recalledGrid, slots[k], recalledRow),
                                             call.actualGrid, call.digitsPerRow) = call.result

\* of two recalled rows, one holds only empty cells and the other has an empty
\* cell after its last filled one; one row was scored
C16_Witness ==
    /\ call.fn = "scoreNumberEvent"
    /\ Len(GridSlots(call.actualGrid)) = 2
    /\ Len(call.result.rowScores) = 1
    /\ call.result.totalScore = 1
    /\ \E j, k \in 1..2 :
        LET rowJ == RecalledAt(call.recalledGrid, GridSlots(call.actualGrid)[j])
            rowK == RecalledAt(call.recalledGrid, GridSlots(call.actualGrid)[k])
        IN  /\ Len(rowJ) > 0
            /\ FilledCells(rowJ) = {}
            /\ FilledCells(rowK) = {1}
            /\ Len(rowK) = 2

\* C17: for every input, scoreNumberEventUSA scores the same rows as
\* scoreNumberEvent, gives a row with at least one error the score 0 and a row
\* without error the score scoreNumberEvent gives it, and its totalScore is at
\* most the one of scoreNumberEvent.
C17_UsaVariantStrict ==
    call.fn = "scoreNumberEventUSA" =>
        LET standard == scoreNumberEvent(call.recalledGrid, call.actualGrid,
                                         call.digitsPerRow)
            usa == call.result
        IN  /\ Len(usa.rowScores) = Len(standard.rowScores)
            /\ \A k \in 1..Len(usa.rowScores) :
                /\ usa.rowScores[k].rowIndex = standard.rowScores[k].rowIndex
                /\ usa.rowScores[k].errors = standard.rowScores[k].errors
                /\ usa.rowScores[k].errors >= 1 => usa.rowScores[k].score = 0
                /\ usa.rowScores[k].errors = 0 =>
                        usa.rowScores[k].score = standard.rowScores[k].score
            /\ usa.totalScore <= standard.totalScore

\* the USA variant scored a row with one error, which the standard variant
\* gives half credit, and a row without error
C17_Witness ==
    /\ call.fn = "scoreNumberEventUSA"
    /\ Len(call.result.rowScores) = 2
    /\ \E j, k \in 1..2 :
        /\ call.result.rowScores[j].errors = 1
        /\ call.result.rowScores[j].score = 0
        /\ scoreNumberEvent(call.recalledGrid, call.actualGrid,
                            call.digitsPerRow).rowScores[j].score = 1
        /\ call.result.rowScores[k].errors = 0
        /\ call.result.rowScores[k].score = 2
    /\ call.result.totalScore = 2

\* C18 (as stated): cells recalled beyond the actual row earn no credit, so
\* totalScore is at most the number of digits in the actual grid.
C18_ScoreWithinActualDigits ==
    call.fn = "scoreNumberEvent" =>
        call.result.totalScore <=
            SumOf([k \in 1..Len(GridSlots(call.actualGrid)) |->
                     Len(call.actualGrid[GridSlots(call.actualGrid)[k][1]]
                                        [GridSlots(call.actualGrid)[k][2]])])

\* C19 (as stated): calculateMillenniumScore(rawScore, standard) is
\* rawScore / standard * 1000 rounded half up, and
\* calculateMillenniumScore(3200, 3234) is 990.
C19_MillenniumRoundHalfUp ==
    call.fn = "calculateMillenniumScore" =>
        /\ call.result = (2000 * call.rawScore + call.standard) \div (2 * call.standard)
        /\ (call.rawScore = 3200 /\ call.standard = 3234) => call.result = 990

\* C19 (amended): calculateMillenniumScore(rawScore, standard) is
\* rawScore / standard * 1000 rounded to the nearest integer; where that
\* quotient is an exact half the result is the integer above or the one below;
\* calculateMillenniumScore(3200, 3234) is 989.
C19_MillenniumNearest ==
    call.fn = "calculateMillenniumScore" =>
        LET halfUp == (2000 * call.rawScore + call.standard) \div (2 * call.standard)
            exactHalf == (2000 * call.rawScore) % (2 * call.standard) = call.standard
        IN  /\ ~exactHalf => call.result = halfUp
            /\ exactHalf => call.result \in {halfUp - 1, halfUp}
            /\ (call.rawScore = 3200 /\ call.standard = 3234) => call.result = 989

C19_Witness ==
    /\ call.fn = "calculateMillenniumScore"
    /\ call.rawScore = 3200
    /\ call.standard = 3234
    /\ call.result = 989

\* C20: calculateNewRating returns newRating >= 100, so do both updates of
\* updatePlayerRatings, and the ratings stored by the completion trigger after
\* each of a sequence of completed matches are >= 100.
C20_RatingFloor ==
    /\ call.fn = "calculateNewRating" => call.result.newRating >= 100
    /\ call.fn = "updatePlayerRatings" =>
            /\ call.result.player1Update.newRating >= 100
            /\ call.result.player2Update.newRating >= 100
    /\ (call.fn = "profiles" /\ call.completions > 0) =>
            /\ call.completed.player1_rating_after >= 100
            /\ call.completed.player2_rating_after >= 100
            /\ \A p \in MatchPlayers : call.profiles[p].rating >= 100

\* a second completed match stored the rating 100 for a player whose rating
\* plus rating change was below 100
C20_Witness ==
    /\ call.fn = "profiles"
    /\ call.completions = 2
    /\ call.before["A"].rating + call.completed.player1_rating_change < 100
    /\ call.completed.player1_rating_after = 100
    /\ call.profiles["A"].rating = 100
    /\ call.profiles["B"].rating > call.before["B"].rating

\* the K-factor rule as stated: 10 for a peak of 2400 or more, else 40 for
\* fewer than 30 games, else 20
KFactorRule(gamesPlayed, peakRating) ==
    IF peakRating >= 2400 THEN 10 ELSE IF gamesPlayed < 30 THEN 40 ELSE 20

\* C21: getDynamicKFactor gives 10 when peakRating >= 2400, also for fewer than
\* 30 games, otherwise 40 when gamesPlayed < 30, otherwise 20, whatever the
\* current rating; and each update of updatePlayerRatings carries the K-factor
\* of that player's own record.
C21_KFactorSelection ==
    /\ call.fn = "getDynamicKFactor" =>
            /\ call.result = KFactorRule(call.player.gamesPlayed, call.player.peakRating)
            /\ \A rating \in RatingInputs :
                    getDynamicKFactor(rating, call.player.gamesPlayed,
                                      call.player.peakRating) = call.result
    /\ call.fn = "updatePlayerRatings" =>
            /\ call.result.player1Update.kFactor
                 = KFactorRule(call.player1.gamesPlayed, call.player1.peakRating)
            /\ call.result.player2Update.kFactor
                 = KFactorRule(call.player2.gamesPlayed, call.player2.peakRating)

\* a master with fewer than 30 games was updated with K = 10 against a new
\* player updated with K = 40
C21_Witness ==
    /\ call.fn = "updatePlayerRatings"
    /\ call.player1.gamesPlayed < 30
    /\ call.player1.peakRating >= 2400
    /\ call.result.player1Update.kFactor = 10
    /\ call.player2.gamesPlayed < 30
    /\ call.player2.peakRating = 0
    /\ call.result.player2Update.kFactor = 40

\* the result seen from the other player
SwapResult(result) ==
    IF result = "player1" THEN "player2" ELSE IF result = "player2" THEN "player1" ELSE "draw"

\* C22: updatePlayerRatings(p, q, result) returns the swap of what
\* updatePlayerRatings(q, p, the swapped result) returns, and each update is
\* the one calculateNewRating gives against the opponent's pre-match rating.
C22_OrderIndependent ==
    call.fn = "updatePlayerRatings" =>
        LET swapped == updatePlayerRatings(call.player2, call.player1,
                                           SwapResult(call.matchResult))
            twice1 == IF call.matchResult = "player1" THEN 2
                      ELSE IF call.matchResult = "draw" THEN 1 ELSE 0
        IN  /\ call.result.player1Update = swapped.player2Update
            /\ call.result.player2Update = swapped.player1Update
            /\ call.result.player1Update =
                    calculateNewRating(call.player1.rating, call.player2.rating, twice1,
                                       call.result.player1Update.kFactor)
            /\ call.result.player2Update =
                    calculateNewRating(call.player2.rating, call.player1.rating, 2 - twice1,
                                       call.result.player2Update.kFactor)

\* two players of different ratings and K-factors were updated after a win of
\* the first, and both ratings changed
C22_Witness ==
    /\ call.fn = "updatePlayerRatings"
    /\ call.matchResult = "player1"
    /\ call.player1.rating # call.player2.rating
    /\ call.result.player1Update.kFactor # call.result.player2Update.kFactor
    /\ call.result.player1Update.ratingChange > 0
    /\ call.result.player2Update.ratingChange < 0
    /\ call.result.player2Update.newRating
         = call.player2.rating + call.result.player2Update.ratingChange

\* C23 (as stated): calculateExpectedScore(A, B) + calculateExpectedScore(B, A)
\* equals 1 (for at least one of the doubles the second call can return), and
\* calculateExpectedScore(A, A) is 0.5.
C23_ExpectedScoresSumToOne ==
    call.fn = "calculateExpectedScore" =>
        /\ \E other \in calculateExpectedScore(call.ratingB, call.ratingA) :
                doubleAdd(call.result, other) = DoubleOne
        /\ call.ratingA = call.ratingB => call.result = DoubleHalf

\* C24: under the default configuration calculateSearchRange(w) is
\* min(100 + floor(w / 5) * 10, 500) for an integer w: 100 at w = 0, 150 at
\* w = 25, non-decreasing in w, never above 500, and 500 from w = 200 on.
C24_SearchRadius ==
    call.fn = "calculateSearchRange" =>
        LET w == call.waitTimeSeconds
            floorFifth == CHOOSE k \in -3..(MaxWait + 1) : 5 * k <= w /\ w < 5 * k + 5
            expanded == 100 + floorFifth * 10
        IN  /\ call.result = IF expanded < 500 THEN expanded ELSE 500
            /\ call.result <= 500
            /\ w = 0 => call.result = 100
            /\ w = 25 => call.result = 150
            /\ calculateSearchRange(w + 1) >= call.result
            /\ w >= 0 => (call.result = 500 <=> w >= 200)

\* the radius reached its cap at a wait of 200 seconds
C24_Witness ==
    /\ call.fn = "calculateSearchRange"
    /\ call.waitTimeSeconds = 200
    /\ call.result = 500

\* the requester's queue entries in the queue given to findMatch
OwnEntries == {r \in call.queue : r.user_id = call.userId}

\* the entries of other players with the event type asked for, whose rating
\* is within the radius of the requester's wait time
InRange ==
    {r \in call.queue :
        /\ r.user_id # call.userId
        /\ r.event_type = call.eventType
        /\ \E own \in OwnEntries :
            LET radius == calculateSearchRange(call.now - own.joined_at)
            IN  call.rating - radius <= r.rating /\ r.rating <= call.rating + radius}

\* C25: an entry findMatch returns is in the queue, belongs to another player,
\* has the event type asked for and a rating within the radius of the
\* requester's own wait time; findMatch returns nothing when the requester has
\* no queue entry or no such entry exists.
C25_FoundEntryIsEligible ==
    call.fn = "findMatch" =>
        /\ call.result # NoEntry => call.result \in InRange
        /\ OwnEntries = {} => call.result = NoEntry
        /\ InRange = {} => call.result = NoEntry

\* findMatch returned an entry although an entry out of range and an entry
\* for another event had joined before it
C25_Witness ==
    /\ call.fn = "findMatch"
    /\ call.result # NoEntry
    /\ \E far \in call.queue \ InRange :
        /\ far.event_type = call.eventType
        /\ far.joined_at < call.result.joined_at
    /\ \E other \in call.queue :
        /\ other.event_type # call.eventType
        /\ other.joined_at < call.result.joined_at

\* the tie-break score as stated
TieBreakScore(candidate) ==
    (IF candidate.rating >= call.rating THEN candidate.rating - call.rating
                                        ELSE call.rating - candidate.rating)
      - 2 * (call.now - candidate.joined_at)

\* the in-range entries that fewer than 10 in-range entries joined before
EarliestTen ==
    {r \in InRange : Cardinality({x \in InRange : x.joined_at < r.joined_at}) < 10}

C27_MatchCreatedBothDequeued ==
    [][\A p \in Players :
        (lobby[p].pc = "inserted" /\ lobby'[p].pc = "matched") =>
            LET created == matches[lobby[p].newMatchId]
            IN  /\ lobby'[p].matchId = created.id
                /\ created.status = "waiting_for_players"
                /\ created.event_type = lobby[p].pollEvent
                /\ created.player1_id = p
                /\ created.player2_id = lobby[p].found
                /\ created.player1_id # created.player2_id
                /\ created.player1_rating_before = profiles[created.player1_id].rating
                /\ created.player2_rating_before = profiles[created.player2_id].rating
                /\ ~HasEntry(queue', created.player1_id)
                /\ ~HasEntry(queue', created.player2_id)]_vars

\* C28: a sweep of stale entries removes exactly the queue entries that
\* joined more than 5 minutes before it: each of them is gone afterwards, every
\* other entry is unchanged, and no match or profile is touched.
C28_SweepRemovesExactlyStale ==
    [][(queue' # queue /\ lobby' = lobby /\ joinLog' = joinLog) =>
          /\ queue' = {r \in queue : ~(now - r.joined_at > StaleSeconds)}
          /\ matches' = matches
          /\ profiles' = profiles]_vars

\* the policy table as stated
StatedPolicy(s) ==
    CASE s \in {"CREATED", "WAITING_FOR_PLAYERS", "PAUSED"} ->
           [gracePeriodMs |-> 60000, action |-> "WAIT", allowReconnect |-> TRUE]
      [] s = "COUNTDOWN" ->
           [gracePeriodMs |-> 10000, action |-> "PAUSE", allowReconnect |-> TRUE]
      [] s = "MEMORIZATION" ->
           [gracePeriodMs |-> 15000, action |-> "PAUSE", allowReconnect |-> TRUE]
      [] s = "RECALL" ->
           [gracePeriodMs |-> 10000, action |-> "FORFEIT", allowReconnect |-> TRUE]
      [] s \in {"COMPLETED", "CANCELLED"} ->
           [gracePeriodMs |-> 0, action |-> "NONE", allowReconnect |-> FALSE]

\* C29: getDisconnectionPolicy returns the table value of the state it is
\* given, for each of the eight states; called without an argument it returns
\* the table value of the machine's current state; the call changes neither
\* the state nor the history.
C29_PolicyLookup ==
    /\ [](lastOp.op = "getDisconnectionPolicy" =>
            lastOp.policy = StatedPolicy(IF lastOp.arg = NoState THEN state
                                         ELSE lastOp.arg))
    /\ [][IsCall("getDisconnectionPolicy") =>
            (state' = state /\ stateHistory' = stateHistory)]_vars

\* the policy asked without an argument of a machine that has moved to RECALL,
\* and the policy of another state asked of a machine in a terminal state
C29_Witness ==
    /\ lastOp.op = "getDisconnectionPolicy"
    /\ Len(stateHistory) >= 2
    /\ \/ lastOp.arg = NoState /\ state = "RECALL"
       \/ lastOp.arg = "MEMORIZATION" /\ state = "COMPLETED"

\* C30: over any sequence of match completions a player's stored peak_rating
\* after a completion is at least its value before, and when it changes it
\* becomes the player's new rating.
C30_PeakRatingMonotone ==
    (call.fn = "profiles" /\ call.completions > 0) =>
        \A p \in MatchPlayers :
            /\ call.profiles[p].peak_rating >= call.before[p].peak_rating
            /\ call.profiles[p].peak_rating # call.before[p].peak_rating =>
                    /\ call.profiles[p].peak_rating = call.profiles[p].rating
                    /\ call.profiles[p].rating > call.before[p].rating

\* a second completed match in which A's new rating became A's peak while
\* B lost rating and kept the peak
C30_Witness ==
    /\ call.fn = "profiles"
    /\ call.completions = 2
    /\ call.profiles["A"].peak_rating > call.before["A"].peak_rating
    /\ call.profiles["A"].peak_rating = call.completed.player1_rating_after
    /\ call.profiles["B"].rating < call.before["B"].rating
    /\ call.profiles["B"].peak_rating = call.before["B"].peak_rating
    /\ call.profiles["B"].peak_rating > call.profiles["B"].rating

C32_LeaveQueueIdempotent ==
    call.fn = "leaveQueue" =>
        /\ call.once = {r \in call.queue : r.user_id # call.userId}
        /\ call.twice = call.once

\* C33: after createMatch(p, q) has succeeded in p's polling loop and p's
\* onMatchFound was given the match id, q's onMatchFound is eventually given
\* that match id too (under fair scheduling of the polling loops).
C33_BothPlayersLearnOfMatch ==
    \A p \in Players : \A q \in Players \ {p} : \A id \in 1..MaxJoins :
        (/\ lobby[p].matchId = id
         /\ id <= Len(matches)
         /\ matches[id].player1_id = p
         /\ matches[id].player2_id = q)
            ~> (lobby[q].matchId = id)

\* C34: from memorization onward each client's local numbersGrid is the grid
\* stored in the match's game_data, whatever the order of the two players'
\* Ready actions and of the deliveries of the match updates.
C34_SameGridOnBothClients ==
    match.status \in {"memorization", "recall", "completed"} =>
        \A c \in MatchPlayers : client[c].numbersGrid = match.game_data.numbersGrid

\* C35: once a player's leaveQueue (Cancel Search) has completed, the player's
\* own polling loop creates no match with that player, also when a poll
\* callback that has called findMatch and not yet createMatch is in flight at
\* the time of the leave.
C35_NoMatchAfterLeave ==
    [][\A p \in Players :
        (lobby[p].left /\ lobby'[p].left) =>
            ~(/\ Len(matches') > Len(matches)
              /\ matches'[Len(matches')].player1_id = p)]_vars

\* C36: a match whose status is completed has both scores submitted, the
\* result that the two scores give (player1 iff score1 > score2, player2 iff
\* score2 > score1, draw iff equal) and the winner_id of that result (null
\* for a draw).
C36_CompletedMatchConsistent ==
    match.status = "completed" =>
        /\ match.player1_score # NULL
        /\ match.player2_score # NULL
        /\ match.result = "player1" <=> match.player1_score > match.player2_score
        /\ match.result = "player2" <=> match.player2_score > match.player1_score
        /\ match.result = "draw" <=> match.player1_score = match.player2_score
        /\ match.winner_id = (CASE match.result = "player1" -> match.player1_id
                                [] match.result = "player2" -> match.player2_id
                                [] OTHER -> NoPlayer)

\* C37 (as stated): for every input of calculateNewRating, newRating equals
\* currentRating + ratingChange, and so the rating_after stored on a completed
\* match is the pre-match rating plus the stored rating_change.
C37_NewRatingIsCurrentPlusChange ==
    /\ call.fn = "calculateNewRating" =>
            call.result.newRating = call.currentRating + call.result.ratingChange
    /\ (call.fn = "profiles" /\ call.completions > 0) =>
            /\ call.completed.player1_rating_after
                 = call.completed.player1_rating_before + call.completed.player1_rating_change
            /\ call.completed.player2_rating_after
                 = call.completed.player2_rating_before + call.completed.player2_rating_change

\* C37 (amended): newRating is the larger of 100 and currentRating +
\* ratingChange, so it equals currentRating + ratingChange exactly when that
\* sum is at least 100; the rating_after that completeMatch stores is the
\* larger of 100 and the profile rating it read plus the stored rating_change.
C37_NewRatingIsFlooredSum ==
    /\ call.fn = "calculateNewRating" =>
            LET sum == call.currentRating + call.result.ratingChange
            IN  /\ call.result.newRating = (IF sum >= 100 THEN sum ELSE 100)
                /\ call.result.newRating = sum <=> sum >= 100
    /\ (call.fn = "profiles" /\ call.completions > 0) =>
            LET sum1 == call.before["A"].rating + call.completed.player1_rating_change
                sum2 == call.before["B"].rating + call.completed.player2_rating_change
            IN  /\ call.completed.player1_rating_after = (IF sum1 >= 100 THEN sum1 ELSE 100)
                /\ call.completed.player2_rating_after = (IF sum2 >= 100 THEN sum2 ELSE 100)

\* a loss that takes the sum below 100: newRating is 100 while the
\* ratingChange returned is the unclamped one
C37_Witness ==
    /\ call.fn = "calculateNewRating"
    /\ call.currentRating > 100
    /\ call.result.ratingChange < 0
    /\ call.currentRating + call.result.ratingChange < 100
    /\ call.result.newRating = 100

\* per row of the actual grid, in page-then-row order: the number of attempted
\* cells (lastFilledIndex + 1, 0 for a row without a filled cell), of filled
\* cells, of blank attempted cells that have an actual digit, and of filled
\* cells that have none
RowCellCounts(recalledGrid, actualGrid) ==
    LET slots == GridSlots(actualGrid)
    IN  [k \in 1..Len(slots) |->
            LET row == RecalledAt(recalledGrid, slots[k])
                actualRow == actualGrid[slots[k][1]][slots[k][2]]
                filled == FilledCells(row)
                attempted == IF filled = {} THEN 0 ELSE MaxOf(filled)
            IN  [attempted |-> attempted,
                 filled |-> Cardinality(filled),
                 blankCompared |->
                    Cardinality({i \in 1..Min(attempted, Len(actualRow)) : row[i] = ""}),
                 filledBeyond |->
                    Cardinality({i \in filled : i > Len(actualRow)})]]

\* C38 (as stated): for every input of scoreNumberEvent, wrongCount is the sum
\* of the errors of the rowScores entries and correctCount + wrongCount is the
\* number of attempted cells, also for rows with blank cells inside the
\* attempted range.
C38_CountsMatchRowErrors ==
    call.fn = "scoreNumberEvent" =>
        LET counts == RowCellCounts(call.recalledGrid, call.actualGrid)
            rows == call.result.rowScores
        IN  /\ call.result.wrongCount = SumOf([k \in 1..Len(rows) |-> rows[k].errors])
            /\ call.result.correctCount + call.result.wrongCount
                 = SumOf([k \in 1..Len(counts) |-> counts[k].attempted])

\* C38 (amended): correctCount + wrongCount is the number of filled cells (the
\* attempted cells that are not blank), and wrongCount is the sum of the
\* errors of the rowScores entries, less the blank attempted cells that were
\* compared with an actual digit, plus the filled cells beyond the end of
\* their actual row.
C38_CountsOfFilledCells ==
    call.fn = "scoreNumberEvent" =>
        LET counts == RowCellCounts(call.recalledGrid, call.actualGrid)
            rows == call.result.rowScores
        IN  /\ call.result.correctCount + call.result.wrongCount
                 = SumOf([k \in 1..Len(counts) |-> counts[k].filled])
            /\ call.result.wrongCount
                 = SumOf([k \in 1..Len(rows) |-> rows[k].errors])
                   - SumOf([k \in 1..Len(counts) |-> counts[k].blankCompared])
                   + SumOf([k \in 1..Len(counts) |-> counts[k].filledBeyond])

\* a row with a blank cell before its last typed digit: the row has an error
\* that wrongCount does not count
C38_Witness ==
    /\ call.fn = "scoreNumberEvent"
    /\ Len(call.result.rowScores) = 2
    /\ \E k \in 1..2 : RowCellCounts(call.recalledGrid, call.actualGrid)[k].blankCompared = 1
    /\ \E k \in 1..2 : call.result.rowScores[k].errors = 1
    /\ call.result.wrongCount = 0
    /\ call.result.correctCount = 2

\* C39: in every reachable state of a MatchStateMachine the history log is
\* non-empty, the state of its last entry is the current state, and every two
\* consecutive entries form an edge of the transition table.
C39_HistoryFollowsTable ==
    /\ Len(stateHistory) >= 1
    /\ stateHistory[Len(stateHistory)].state = state
    /\ \A i \in 1..(Len(stateHistory) - 1) :
            stateHistory[i + 1].state \in C1_AllowedDestinations(stateHistory[i].state)

\* a log of three entries after a rejected transition, and a log of two
\* entries that begins with the CREATED of a reset
C39_Witness ==
    \/ /\ Len(stateHistory) = 3
       /\ lastOp.op = "transition"
       /\ ~lastOp.ok
    \/ /\ Len(stateHistory) = 2
       /\ calls = 4
       /\ stateHistory[1].state = "CREATED"
       /\ stateHistory[1].timestamp > 0

\* C40: within one ScoringResult of scoreNumberEvent or scoreNumberEventUSA the
\* rowIndex of the rowScores entries is strictly increasing in page-then-row
\* order (so no two entries share a rowIndex), for every actual grid, also one
\* whose pages have different numbers of rows.
C40_RowIndexStrictlyIncreasing ==
    call.fn \in {"scoreNumberEvent", "scoreNumberEventUSA"} =>
        \A j \in 1..Len(call.result.rowScores) : \A k \in 1..Len(call.result.rowScores) :
            j < k => call.result.rowScores[j].rowIndex < call.result.rowScores[k].rowIndex

====
